---- MODULE Spec2Model ----
(***************************************************************************)
(* Trace-context propagation of the logger: the process-wide               *)
(* TraceContextManager (AsyncLocalStorage based store) and the             *)
(* TraceIdExtractor, modelled from src/src/__tests__/logger.test.ts (the   *)
(* file carries trace-context.ts at lines 204-421 and trace-extractor.ts   *)
(* at lines 422-607) and src/src/core/logger.ts.                           *)
(***************************************************************************)
EXTENDS Integers, Sequences, FiniteSets, TLC

(***************************************************************************)
(* Bounds of the model.                                                    *)
(***************************************************************************)
MaxDepth == 2      \* nesting depth of runWithTraceId* calls inside one flow
MaxCalls == 2      \* runWithTraceId* calls made in one behaviour
MaxHeaders == 2    \* header entries of one request
MaxClock == 2      \* readings of Date.now() after the first
MaxFamily == 2     \* distinct Logger objects alive in one behaviour

(***************************************************************************)
(* JavaScript values.                                                      *)
(***************************************************************************)
Undef == [t |-> "undefined"]
Str(s) == [t |-> "string", v |-> s]
Num(n) == [t |-> "number", v |-> n]
Arr(q) == [t |-> "array", v |-> q]
Obj(f) == [t |-> "object", v |-> f]
Null == [t |-> "null"]
\* an object whose own keys cannot be enumerated: the trap or getter throws
Hostile == [t |-> "hostile"]
\* an exception in flight, as the value of the call that raised it
Raised(e) == [t |-> "raised", v |-> e]
IsRaised(x) == x.t = "raised"

\* mutant: only undefined is rejected, the empty string passes
TruthyDefined(x) == x.t # "undefined"

\* JavaScript truthiness, the test of `if (value)` and of `!value`
Truthy(x) ==
  CASE x.t = "undefined" -> FALSE
    [] x.t = "null" -> FALSE
    [] x.t = "string" -> x.v # ""
    [] x.t = "number" -> x.v # 0
    [] OTHER -> TRUE

(***************************************************************************)
(* The flows.  Main is the top-level code (the event loop turn that starts *)
(* flows); A and B are logical flows whose continuations interleave.       *)
(***************************************************************************)
Main == "main"
Flows == {"A", "B"}
Callers == Flows \cup {Main}
TraceIds == {"T1", "T2"}
Outcomes == {[kind |-> "return", v |-> "v1"],
             [kind |-> "throw", v |-> "E1"], [kind |-> "throw", v |-> "E2"]}

VARIABLES
  config,         \* TraceContextManager.config: enabled, generator, contextKey
  cur,            \* what asyncLocalStorage.getStore() yields to the running code
  running,        \* the caller whose code holds the (single) thread
  stack,          \* per flow: the frames of its runWithTraceId* callbacks
  obs,            \* what the last step returned to its caller
  runCalls,       \* number of runWithTraceId* calls made
  cbInvocations,  \* number of times a callback was invoked by them
  wasDisabled,    \* tracing has been switched off at least once
  lastWriter,     \* the caller that last wrote config.enabled
  exConfig,       \* TraceIdExtractor.config of the extractor
  request,        \* the request handed to the extractor
  extracted,      \* what extractFromRequest returned for it
  logger,         \* a Logger: its config and the level of its adapter
  traceConfig,    \* LogitronTraceMiddleware.traceConfig
  mw,             \* the use() call of the middleware in progress or last made
  timings,        \* the timings map of logger.ts: label -> TimingEntry
  now,            \* Date.now()
  tasks,          \* per Logger: its timeEnd / timeAsync call in flight
  family,         \* the distinct Logger objects made by new Logger and child()
  metadata        \* the metadata objects the bound TraceContexts refer to

storeVars == <<config, cur, running, stack, obs, runCalls, cbInvocations,
               wasDisabled, lastWriter>>
extractVars == <<exConfig, request, extracted>>
loggerVars == <<logger>>
mwVars == <<traceConfig, mw>>
timerVars == <<timings, now, tasks>>
familyVars == <<family>>
metaVars == <<metadata>>
sideVars == <<timerVars, familyVars, metaVars>>
restVars == <<extractVars, loggerVars, mwVars, sideVars>>
quietVars == <<config, cur, running, stack, runCalls, cbInvocations,
               wasDisabled, lastWriter>>

Top(s) == s[Len(s)]
Pop(s) == SubSeq(s, 1, Len(s) - 1)

(***************************************************************************)
(* TraceContextManager                                                     *)
(***************************************************************************)
\* constructor(): the initial process-wide TraceIdConfig
DefaultTraceConfig ==
  [enabled |-> TRUE,
   generator |-> [t |-> "function", name |-> "defaultGenerator",
                  result |-> Str("R1")],
   contextKey |-> Str("traceId")]

\* mutant: every context is built with one fixed id
NewContextFixedId(traceId) == [t |-> "context", traceId |-> "T1"]

\* the TraceContext object built by runWithTraceId / runWithTraceIdAsync
NewContext(traceId) == [t |-> "context", traceId |-> traceId]

\* mutant: the enabled flag is not consulted
getCurrentTraceIdNoFlag(cfg, store) ==
  IF store = Undef THEN Undef ELSE Str(store.traceId)

\* getCurrentTraceId(): undefined when disabled, else context?.traceId
getCurrentTraceId(cfg, store) ==
  IF ~cfg.enabled THEN Undef
  ELSE IF store = Undef THEN Undef ELSE Str(store.traceId)

\* getCurrentContext(): the store, whatever the enabled flag says
getCurrentContext(cfg, store) == store

\* the store under which runWithTraceId* runs its callback: the caller's
\* store when disabled (callback()), a new context when enabled (als.run)
RunStore(cfg, store, traceId) ==
  IF ~cfg.enabled THEN store ELSE NewContext(traceId)

\* how often runWithTraceId* invokes its callback: once on either branch
RunInvocations(cfg) == IF ~cfg.enabled THEN 1 ELSE 1

\* mutant: an error of the callback is swallowed
RunResultSwallows(bound, outcome) ==
  IF outcome.kind = "throw" THEN [kind |-> "return", v |-> "undefined"]
  ELSE outcome

\* runWithTraceId: `return callback()` / `return als.run(context, callback)`
\* hand the callback's value or its exception to the caller
RunResult(bound, outcome) == IF ~bound THEN outcome ELSE outcome

\* mutant: the catch block rejects with a new error that wraps the original
AsyncSettleWraps(bound, outcome) ==
  IF outcome.kind = "return"
    THEN <<[how |-> "resolve", v |-> outcome.v]>>
    ELSE <<[how |-> "reject", v |-> "Error(wrapped)"]>>

\* runWithTraceIdAsync: the settle calls made on the returned promise.
\* disabled: the async function returns callback(), so its promise follows
\* the callback; enabled: try { resolve(await callback()) } catch { reject }
AsyncSettle(bound, outcome) ==
  IF ~bound
    THEN <<[how |-> IF outcome.kind = "return" THEN "resolve" ELSE "reject",
            v |-> outcome.v]>>
    ELSE IF outcome.kind = "return"
           THEN <<[how |-> "resolve", v |-> outcome.v]>>
           ELSE <<[how |-> "reject", v |-> outcome.v]>>

\* mutant: the context lives in a plain shared variable, a continuation
\* sees whatever that variable holds when it resumes
ResumeStoreShared(frame) == cur

\* AsyncLocalStorage: a continuation resumes under the store it was created in
ResumeStore(frame) == frame.store

\* mutant: the store of the callback stays in place after it is left
RestoreStoreKept(frame) == frame.store

\* AsyncLocalStorage.run: the caller's store is back once the callback is left
RestoreStore(frame) == frame.saved

NoObs == [op |-> "none"]

StoreInit ==
  /\ config = DefaultTraceConfig
  /\ cur = Undef
  /\ running = Main
  /\ stack = [f \in Flows |-> <<>>]
  /\ obs = NoObs
  /\ runCalls = 0
  /\ cbInvocations = 0
  /\ wasDisabled = FALSE
  /\ lastWriter = "nobody"

\* the caller c may make a call now: it holds the thread and, when it is
\* a flow, it is inside a callback
Executing(c) == running = c /\ (c \in Flows => stack[c] # <<>>)

\* the frame of a callback started by runWithTraceId* from caller c
NewFrame(kind, traceId) ==
  [kind |-> kind, traceId |-> traceId, bound |-> config.enabled,
   store |-> RunStore(config, cur, traceId), saved |-> cur,
   awaited |-> FALSE, reenabled |-> wasDisabled /\ config.enabled]

\* a runWithTraceId* call by flow f: from top-level code when f has not
\* started, from inside f's running callback otherwise
Enter(f, kind, traceId) ==
  /\ runCalls < MaxCalls
  /\ \/ running = Main /\ stack[f] = <<>>
     \/ running = f /\ stack[f] # <<>> /\ Len(stack[f]) < MaxDepth
  /\ running' = f
  /\ stack' = [stack EXCEPT ![f] = Append(@, NewFrame(kind, traceId))]
  /\ cur' = RunStore(config, cur, traceId)
  /\ runCalls' = runCalls + 1
  /\ cbInvocations' = cbInvocations + RunInvocations(config)
  /\ obs' = [op |-> "enter", caller |-> f]
  /\ UNCHANGED <<config, wasDisabled, lastWriter, restVars>>

RunWithTraceId(f, traceId) == Enter(f, "sync", traceId)

RunWithTraceIdAsync(f, traceId) == Enter(f, "async", traceId)

\* the running callback of f reaches an await: the thread goes back to the
\* top-level code, whose store is the one saved by the outermost frame
Await(f) ==
  /\ running = f /\ stack[f] # <<>>
  /\ stack' = [stack EXCEPT ![f][Len(stack[f])].awaited = TRUE]
  /\ running' = Main
  /\ cur' = RestoreStore(stack[f][1])
  /\ obs' = NoObs
  /\ UNCHANGED <<config, runCalls, cbInvocations, wasDisabled, lastWriter,
                 restVars>>

\* a continuation of the suspended flow f is run by the event loop
Resume(f) ==
  /\ running = Main /\ stack[f] # <<>>
  /\ running' = f
  /\ cur' = ResumeStore(Top(stack[f]))
  /\ obs' = NoObs
  /\ UNCHANGED <<config, stack, runCalls, cbInvocations, wasDisabled,
                 lastWriter, restVars>>

\* the running callback of f completes with outcome o (a value or an error)
Complete(f, o) ==
  /\ running = f /\ stack[f] # <<>>
  /\ LET fr == Top(stack[f]) IN
       /\ stack' = [stack EXCEPT ![f] = Pop(@)]
       /\ running' = IF Len(stack[f]) = 1 THEN Main ELSE f
       /\ cur' = RestoreStore(fr)
       /\ obs' = IF fr.kind = "sync"
                   THEN [op |-> "returned", caller |-> f, bound |-> fr.bound,
                         traceId |-> fr.traceId, awaited |-> fr.awaited,
                         cb |-> o, got |-> RunResult(fr.bound, o)]
                   ELSE [op |-> "settled", caller |-> f, bound |-> fr.bound,
                         traceId |-> fr.traceId, awaited |-> fr.awaited,
                         cb |-> o, settles |-> AsyncSettle(fr.bound, o)]
  /\ UNCHANGED <<config, runCalls, cbInvocations, wasDisabled, lastWriter,
                 restVars>>

\* caller c calls getCurrentTraceId()
ReadTraceId(c) ==
  /\ Executing(c)
  /\ LET got == getCurrentTraceId(config, cur) IN
       obs' = [op |-> "getCurrentTraceId", caller |-> c, got |-> got]
  /\ UNCHANGED <<config, cur, running, stack, runCalls, cbInvocations,
                 wasDisabled, lastWriter, restVars>>

\* caller c calls getCurrentContext()
ReadContext(c) ==
  /\ Executing(c)
  /\ obs' = [op |-> "getCurrentContext", caller |-> c,
             got |-> getCurrentContext(config, cur)]
  /\ UNCHANGED <<config, cur, running, stack, runCalls, cbInvocations,
                 wasDisabled, lastWriter, restVars>>

\* caller c calls disable()
Disable(c) ==
  /\ Executing(c)
  /\ config' = [config EXCEPT !.enabled = FALSE]
  /\ wasDisabled' = TRUE
  /\ lastWriter' = c
  /\ obs' = NoObs
  /\ UNCHANGED <<cur, running, stack, runCalls, cbInvocations, restVars>>

\* caller c calls enable()
Enable(c) ==
  /\ Executing(c)
  /\ config' = [config EXCEPT !.enabled = TRUE]
  /\ lastWriter' = c
  /\ obs' = NoObs
  /\ UNCHANGED <<cur, running, stack, runCalls, cbInvocations, wasDisabled,
                 restVars>>

(***************************************************************************)
(* Logger.configureTraceId, run by the Logger constructor and updateConfig *)
(***************************************************************************)
\* the traceId settings of a LoggerConfig: false, true or a TraceIdConfig
LoggerTraceSettings ==
  {[t |-> "boolean", v |-> FALSE], [t |-> "boolean", v |-> TRUE]}

configureTraceId(cfg, setting) ==
  IF setting.t = "boolean" /\ setting.v = FALSE
    THEN [cfg EXCEPT !.enabled = FALSE]
    ELSE IF setting.t = "object"
           THEN [enabled |-> TRUE, generator |-> setting.generator,
                 contextKey |-> IF Truthy(setting.contextKey)
                                  THEN setting.contextKey ELSE Str("traceId")]
           ELSE [cfg EXCEPT !.enabled = TRUE]

\* caller c constructs a Logger whose config.traceId is `setting`
NewLogger(c, setting) ==
  /\ Executing(c)
  /\ config' = configureTraceId(config, setting)
  /\ wasDisabled' = (wasDisabled \/ ~config'.enabled)
  /\ lastWriter' = c
  /\ obs' = NoObs
  /\ UNCHANGED <<cur, running, stack, runCalls, cbInvocations, restVars>>

(***************************************************************************)
(* Logger and the level of its adapter                                     *)
(***************************************************************************)
\* isLevelEnabled: the levels in ascending order
levels == <<"trace", "debug", "info", "warn", "error", "fatal">>

LogLevels == {levels[i] : i \in 1..Len(levels)}

\* Array.prototype.indexOf on the levels
indexOf(level) == CHOOSE i \in 1..Len(levels) : levels[i] = level

\* the logging methods of Logger: error, warn, info, debug, trace
LogMethods == {"error", "warn", "info", "debug", "trace"}

\* DEFAULT_CONFIG of the types: level and traceId (the fields of the model)
DEFAULT_CONFIG ==
  [level |-> Str("info"), traceId |-> [t |-> "boolean", v |-> TRUE]]

\* { ...a, ...b } on the fields of a LoggerConfig: a field b does not have,
\* modelled as Undef in b, keeps the value of a
Merge(a, b) ==
  [k \in DOMAIN a \cup DOMAIN b |->
     IF k \in DOMAIN b /\ (k \notin DOMAIN a \/ b[k] # Undef)
       THEN b[k] ELSE a[k]]

\* PinoAdapter / WinstonAdapter constructor: the level of the options,
\* 'info' without one
AdapterConstructor(options) ==
  [currentLevel |-> IF options.level # Undef THEN options.level.v ELSE "info"]

\* createAdapter: a new adapter from config.options || {}; config.level is
\* not handed to it
createAdapter(cfg) == AdapterConstructor(cfg.options)

\* the Logger constructor: { ...DEFAULT_CONFIG, ...config }, createAdapter
LoggerConstructor(given) ==
  [config |-> Merge(DEFAULT_CONFIG, given),
   adapter |-> createAdapter(Merge(DEFAULT_CONFIG, given))]

\* createLogger: adapter 'pino', level 'info', traceId true, ...config
createLogger(given) ==
  LoggerConstructor(
    Merge([level |-> Str("info"), traceId |-> [t |-> "boolean", v |-> TRUE]],
          given))

\* adapter.setLevel / Logger.setLevel
setLevel(lg, level) == [lg EXCEPT !.adapter.currentLevel = level]

\* adapter.getLevel / Logger.getLevel
getLevel(lg) == lg.adapter.currentLevel

\* updateConfig: merge, a new adapter, then setLevel when a level is given
updateConfig(lg, given) ==
  LET merged == Merge(lg.config, given)
      renewed == [config |-> merged, adapter |-> createAdapter(merged)]
  IN IF Truthy(given.level) THEN setLevel(renewed, given.level.v)
     ELSE renewed

\* mutant: a level is enabled only strictly above the current one
isLevelEnabledStrict(lg, level) == indexOf(level) > indexOf(getLevel(lg))

\* isLevelEnabled: targetIndex >= currentIndex
isLevelEnabled(lg, level) == indexOf(level) >= indexOf(getLevel(lg))

NoEntry == [t |-> "none"]

\* mutant: the entry is built without looking at the trace context
logEntryUntraced(lg, level, cfg, store) ==
  IF ~isLevelEnabled(lg, level) THEN NoEntry
  ELSE [t |-> "entry", level |-> level, traceId |-> Undef]

\* logEntry: nothing below the current level, else the entry handed to
\* adapter.log, its traceId read from the trace context at the call
logEntry(lg, level, cfg, store) ==
  IF ~isLevelEnabled(lg, level) THEN NoEntry
  ELSE [t |-> "entry", level |-> level,
        traceId |-> getCurrentTraceId(cfg, store)]

\* how adapter.log(entry) ends: it resolves, or it throws or rejects
AdapterOutcomes ==
  {[kind |-> "return", v |-> "undefined"],
   [kind |-> "throw", v |-> "AdapterError"]}

\* mutant: logEntry without its try / catch
logSettlesUncaught(entry, a) ==
  IF entry = NoEntry THEN [settled |-> [kind |-> "return", v |-> "undefined"],
                           consoleErrors |-> 0]
  ELSE [settled |-> a, consoleErrors |-> 0]

\* the try / catch of logEntry around adapter.log(entry): a failure is
\* reported with console.error and the promise of the log call resolves
logSettles(entry, a) ==
  IF entry = NoEntry THEN [settled |-> [kind |-> "return", v |-> "undefined"],
                           consoleErrors |-> 0]
  ELSE IF a.kind = "throw"
    THEN [settled |-> [kind |-> "return", v |-> "undefined"],
          consoleErrors |-> 1]
  ELSE [settled |-> [kind |-> "return", v |-> "undefined"],
        consoleErrors |-> 0]

\* the configurations loggers are created and updated with
LoggerConfigs ==
  [level : {Undef} \cup {Str(l) : l \in LogLevels},
   options : {[level |-> Undef], [level |-> Str("warn")]},
   traceId : {Undef} \cup LoggerTraceSettings]

\* the module's defaultLogger = createLogger()
DefaultLogger ==
  createLogger([level |-> Undef, options |-> [level |-> Undef],
                traceId |-> Undef])

(***************************************************************************)
(* Performance timing: the module-level `timings` map of logger.ts         *)
(***************************************************************************)
\* the Logger instances that use the timers
Loggers == {"L1", "L2"}

\* the label timers are started under
Labels == {"x"}

\* timings.get(label) on a label without entry
NoTimer == [t |-> "none"]

\* no timeEnd / timeAsync call is in flight on a Logger
Idle == [pc |-> "idle"]

\* time(label): timings.set(label, { label, startTime: Date.now() }); `by`
\* notes the instance the call was made on and whether its timeAsync made
\* it, which the map does not keep
time(tm, label, clock, lg, async) ==
  [tm EXCEPT ![label] = [t |-> "timing", startTime |-> clock,
                         by |-> [logger |-> lg, async |-> async]]]

\* timeEnd up to its await: timings.get(label), the duration when found
timeEndGet(tm, label, clock) ==
  IF tm[label] = NoTimer THEN [found |-> FALSE, duration |-> Undef]
  ELSE [found |-> TRUE, duration |-> Num(clock - tm[label].startTime)]

\* mutant: the timer stays in the map
timeEndDoneKeeps(tm, label, got) == tm

\* timeEnd after its await: timings.delete(label) when a timer was found
timeEndDone(tm, label, got) ==
  IF got.found THEN [tm EXCEPT ![label] = NoTimer] ELSE tm

\* no timer is running, no call is in flight
(***************************************************************************)
(* Logger.child and the persistent context data                            *)
(***************************************************************************)
DataKeys == {"userId", "orderId"}

\* contextData = {}: a field of a ContextData the object does not have is
\* Undef
NoData == [k \in DataKeys |-> Undef]

\* the `data` arguments of child(): omitted, or an object
ChildData ==
  {Undef, [userId |-> Str("u2"), orderId |-> Str("o1")]}

ChildContexts == {"order"}

\* the traceId settings of the loggers of the family: false, true, and a
\* TraceIdConfig whose own enabled field says false
FamilySettings ==
  LoggerTraceSettings \cup
    {[t |-> "object", enabled |-> FALSE,
      generator |-> DefaultTraceConfig.generator, contextKey |-> Undef]}

\* the fields a Logger starts with: the config given, no context and
\* contextData = {}; a context is the sequence of the names its string
\* joins with '.'
Logger(cfg) == [config |-> cfg, context |-> <<>>, contextData |-> NoData]

\* mutant: the child is constructed with the default configuration
childOfDefaults(parent, context, data) ==
  [Logger([traceId |-> [t |-> "boolean", v |-> TRUE]]) EXCEPT
     !.context = IF parent.context # <<>>
                   THEN parent.context \o <<context>> ELSE <<context>>,
     !.contextData = IF data # Undef
                       THEN Merge(parent.contextData, data) ELSE @]

\* child(context, data): a new Logger of the parent's config, the context
\* appended to the parent's when the parent has one, and contextData
\* assigned only when data is given
child(parent, context, data) ==
  [Logger(parent.config) EXCEPT
     !.context = IF parent.context # <<>>
                   THEN parent.context \o <<context>> ELSE <<context>>,
     !.contextData = IF data # Undef
                       THEN Merge(parent.contextData, data) ELSE @]

\* addContextData(data): this.contextData = { ...this.contextData, ...data }
addContextData(lg, data) ==
  [lg EXCEPT !.contextData = Merge(@, data)]

\* the payload of an entry of logger lg: { ...this.contextData, ...data },
\* and no payload, which has none of the keys, when both are empty
payload(lg, data) == Merge(lg.contextData, data)

(***************************************************************************)
(* TraceContext.metadata: the objects the contexts refer to                *)
(***************************************************************************)
MetaKeys == {"k"}

MetaValues == {Str("v1"), Str("v2")}

\* an object without the keys
EmptyBag == [k \in MetaKeys |-> Undef]

\* one context per runWithTraceId call that binds: the i-th frame of flow f
Slots == Flows \X (1..MaxDepth)

\* getStore() yields no context
Unbound == <<Main, 0>>

\* the `metadata` arguments of runWithTraceId: omitted, an object literal
\* written at the call, or one object `shared` the caller keeps and hands to
\* every call
MetadataArgs == {"none", "own", "shared"}

\* no context has a metadata object; the caller's object is {}
NoMetadata ==
  [ref |-> [s \in Slots |-> "none"],
   own |-> [s \in Slots |-> EmptyBag],
   shared |-> EmptyBag]

\* context = { traceId, startTime, metadata }: the context of slot s
\* refers to the object it was given
bindMetadata(m, s, arg) ==
  [m EXCEPT !.ref[s] = arg, !.own[s] = EmptyBag]

\* context.metadata of the context of slot s, Undef when it has none
metadataOf(m, s) ==
  IF s = Unbound \/ m.ref[s] = "none" THEN Undef
  ELSE IF m.ref[s] = "own" THEN m.own[s] ELSE m.shared

\* setMetadata(key, value): nothing without a context; a new {} when the
\* context has no metadata; then the write into the object referred to
setMetadata(m, s, key, value) ==
  IF s = Unbound THEN m
  ELSE IF m.ref[s] = "none"
         THEN [m EXCEPT !.ref[s] = "own",
                        !.own[s] = [EmptyBag EXCEPT ![key] = value]]
  ELSE IF m.ref[s] = "own" THEN [m EXCEPT !.own[s][key] = value]
  ELSE [m EXCEPT !.shared[key] = value]

\* getMetadata(key): undefined without a context or without metadata, else
\* context.metadata[key]
getMetadata(m, s, key) ==
  IF metadataOf(m, s) = Undef THEN Undef ELSE metadataOf(m, s)[key]

SideInit ==
  /\ timings = [l \in Labels |-> NoTimer]
  /\ now = 0
  /\ tasks = [lg \in Loggers |-> Idle]
  /\ family = {}
  /\ metadata = NoMetadata

\* no use() call of the middleware has been made
MwIdle == [phase |-> "idle"]

\* the default logger exists, no middleware is installed
RestInit ==
  /\ logger = DefaultLogger
  /\ traceConfig = Undef
  /\ mw = MwIdle
  /\ SideInit

(***************************************************************************)
(* TraceIdExtractor                                                        *)
(***************************************************************************)
\* the names "0", "1", ... of the elements of a list
IndexName(i) == CASE i = 1 -> "0" [] i = 2 -> "1" [] OTHER -> "2"

\* Object.entries(o): the own enumerable properties in order, the indexed
\* elements of a list, none for a number
Entries(o) ==
  CASE o.t = "object" -> o.v
    [] o.t = "array" ->
         [i \in 1..Len(o.v) |-> [k |-> IndexName(i), v |-> o.v[i]]]
    [] OTHER -> <<>>

\* o[key]: a TypeError on undefined and null (and the error of the getter
\* of a hostile object), the property of an object or list, undefined on a
\* property a value does not have
Get(o, key) ==
  IF o.t \in {"undefined", "null", "hostile"} THEN Raised("TypeError")
  ELSE IF \E i \in 1..Len(Entries(o)) : Entries(o)[i].k = key
    THEN Entries(o)[CHOOSE i \in 1..Len(Entries(o)) :
                      Entries(o)[i].k = key].v
    ELSE Undef

\* String.prototype.toLowerCase on the header names of the model
toLowerCase(name) ==
  CASE name = "X-Trace-Id" -> "x-trace-id"
    [] name = "X-Request-Id" -> "x-request-id"
    [] OTHER -> name

\* path.split('.') on the field names of the model
SplitPath(path) ==
  CASE path = "user.traceId" -> <<"user", "traceId">>
    [] OTHER -> <<path>>

\* Array.isArray(c) ? c : [c], the names configured for one location
KeysOf(c) == IF c.t = "array" THEN c.v ELSE <<c.v>>

\* mutant: the type test is left out
IsStringAny(value) == TRUE

\* typeof value === 'string'
IsString(value) == value.t = "string"

\* constructor: { header: [three default names], ...config }
DefaultHeaderNames == <<"x-trace-id", "x-request-id", "x-correlation-id">>

TraceIdExtractor(given) ==
  [header |-> IF "header" \in DOMAIN given THEN given.header
              ELSE Arr(DefaultHeaderNames),
   query |-> IF "query" \in DOMAIN given THEN given.query ELSE Undef,
   body |-> IF "body" \in DOMAIN given THEN given.body ELSE Undef,
   params |-> IF "params" \in DOMAIN given THEN given.params ELSE Undef]

\* getHeaderValue: the first entry whose name matches case-insensitively,
\* its first element when it is a list
RECURSIVE HeaderEntryLoop(_, _, _)
HeaderEntryLoop(entries, lowerKey, i) ==
  IF i > Len(entries) THEN Undef
  ELSE IF toLowerCase(entries[i].k) = lowerKey
         THEN IF entries[i].v.t = "array"
                THEN IF Len(entries[i].v.v) > 0 THEN entries[i].v.v[1] ELSE Undef
                ELSE entries[i].v
         ELSE HeaderEntryLoop(entries, lowerKey, i + 1)

getHeaderValue(headers, key) ==
  IF headers.t \in {"undefined", "null", "hostile"} THEN Raised("TypeError")
  ELSE HeaderEntryLoop(Entries(headers), toLowerCase(key), 1)

\* getNestedValue: reduce over the path, undefined once a step is missing
RECURSIVE NestedLoop(_, _, _)
NestedLoop(current, segs, i) ==
  IF i > Len(segs) \/ IsRaised(current) THEN current
  ELSE NestedLoop(IF Truthy(current) /\ Get(current, segs[i]) # Undef
                    THEN Get(current, segs[i]) ELSE Undef,
                  segs, i + 1)

getNestedValue(obj, path) == NestedLoop(obj, SplitPath(path), 1)

RECURSIVE HeaderKeyLoop(_, _, _)
HeaderKeyLoop(headers, keys, i) ==
  IF i > Len(keys) THEN Undef
  ELSE LET value == getHeaderValue(headers, keys[i])
       IN IF IsRaised(value) \/ Truthy(value) THEN value
          ELSE HeaderKeyLoop(headers, keys, i + 1)

extractFromHeaders(cfg, headers) ==
  IF ~Truthy(headers) \/ ~Truthy(cfg.header) THEN Undef
  ELSE HeaderKeyLoop(headers, KeysOf(cfg.header), 1)

RECURSIVE QueryKeyLoop(_, _, _)
QueryKeyLoop(query, keys, i) ==
  IF i > Len(keys) THEN Undef
  ELSE LET value == Get(query, keys[i])
       IN IF IsRaised(value) \/ (Truthy(value) /\ IsString(value))
            THEN value
          ELSE QueryKeyLoop(query, keys, i + 1)

extractFromQuery(cfg, query) ==
  IF ~Truthy(query) \/ ~Truthy(cfg.query) THEN Undef
  ELSE QueryKeyLoop(query, KeysOf(cfg.query), 1)

RECURSIVE BodyKeyLoop(_, _, _)
BodyKeyLoop(body, keys, i) ==
  IF i > Len(keys) THEN Undef
  ELSE LET value == getNestedValue(body, keys[i])
       IN IF IsRaised(value) \/ (Truthy(value) /\ IsString(value))
            THEN value
          ELSE BodyKeyLoop(body, keys, i + 1)

extractFromBody(cfg, body) ==
  IF ~Truthy(body) \/ ~Truthy(cfg.body) THEN Undef
  ELSE BodyKeyLoop(body, KeysOf(cfg.body), 1)

RECURSIVE ParamKeyLoop(_, _, _)
ParamKeyLoop(params, keys, i) ==
  IF i > Len(keys) THEN Undef
  ELSE LET value == Get(params, keys[i])
       IN IF IsRaised(value) \/ (Truthy(value) /\ IsString(value))
            THEN value
          ELSE ParamKeyLoop(params, keys, i + 1)

extractFromParams(cfg, params) ==
  IF ~Truthy(params) \/ ~Truthy(cfg.params) THEN Undef
  ELSE ParamKeyLoop(params, KeysOf(cfg.params), 1)

\* mutant: the query is consulted before the headers
extractFromRequestQueryFirst(cfg, req) ==
  LET headerTraceId == extractFromHeaders(cfg, req.headers)
      queryTraceId == extractFromQuery(cfg, req.query)
      bodyTraceId == extractFromBody(cfg, req.body)
      paramsTraceId == extractFromParams(cfg, req.params)
  IN IF Truthy(queryTraceId) THEN queryTraceId
     ELSE IF Truthy(headerTraceId) THEN headerTraceId
     ELSE IF Truthy(bodyTraceId) THEN bodyTraceId
     ELSE IF Truthy(paramsTraceId) THEN paramsTraceId
     ELSE Undef

\* extractFromRequest: headers, then query, then body, then params; an
\* exception of a phase leaves the function at once
extractFromRequest(cfg, req) ==
  LET headerTraceId == extractFromHeaders(cfg, req.headers)
      queryTraceId == extractFromQuery(cfg, req.query)
      bodyTraceId == extractFromBody(cfg, req.body)
      paramsTraceId == extractFromParams(cfg, req.params)
  IN IF IsRaised(headerTraceId) \/ Truthy(headerTraceId) THEN headerTraceId
     ELSE IF IsRaised(queryTraceId) \/ Truthy(queryTraceId) THEN queryTraceId
     ELSE IF IsRaised(bodyTraceId) \/ Truthy(bodyTraceId) THEN bodyTraceId
     ELSE IF IsRaised(paramsTraceId) \/ Truthy(paramsTraceId)
            THEN paramsTraceId
     ELSE Undef

\* the extractor is not in use / has not been called yet
NoRequest == [t |-> "none"]
Pending == [t |-> "pending"]

vars == <<storeVars, extractVars, loggerVars, mwVars, sideVars>>

\* the store is running, no extractor is in use
Init ==
  /\ StoreInit
  /\ RestInit
  /\ exConfig = TraceIdExtractor([x \in {} |-> Undef])
  /\ request = NoRequest
  /\ extracted = NoRequest

Next ==
  \/ \E f \in Flows, id \in TraceIds : RunWithTraceId(f, id)
  \/ \E f \in Flows, id \in TraceIds : RunWithTraceIdAsync(f, id)
  \/ \E f \in Flows : Await(f)
  \/ \E f \in Flows : Resume(f)
  \/ \E f \in Flows, o \in Outcomes : Complete(f, o)
  \/ \E c \in Callers : ReadTraceId(c)
  \/ \E c \in Callers : ReadContext(c)
  \/ \E c \in Callers : Disable(c)
  \/ \E c \in Callers : Enable(c)
  \/ \E c \in Callers, s \in LoggerTraceSettings : NewLogger(c, s)

Spec == Init /\ [][Next]_vars

(***************************************************************************)
(* The requests and extractor configurations of the model                  *)
(***************************************************************************)
Entry(k, v) == [k |-> k, v |-> v]

\* the values a request may carry under a header name
HeaderValues(name) ==
  CASE name = "x-trace-id" ->
         {Str(""), Str("h-trace"),
          Arr(<<Str("h-first"), Str("h-second")>>), Num(7)}
    [] name = "X-Trace-Id" ->
         {Str(""), Str("H-TRACE"), Arr(<<Str(""), Str("h-second")>>), Num(7)}
    [] OTHER ->
         {Str(""), Str("h-request"), Arr(<<>>), Num(7)}

RequestHeaderNames == {"x-trace-id", "X-Trace-Id", "x-request-id"}

\* header objects of at most MaxHeaders entries, in every order
HeaderObjects ==
  {Obj(q) : q \in
     {q \in UNION {[1..n -> UNION {{Entry(k, v) : v \in HeaderValues(k)}
                                     : k \in RequestHeaderNames}]
                     : n \in 0..MaxHeaders} :
        \A i, j \in 1..Len(q) : i # j => q[i].k # q[j].k}}

\* an object of the given fields, the undefined ones left out
RECURSIVE Fields(_)
Fields(q) ==
  IF q = <<>> THEN <<>>
  ELSE IF Head(q).v = Undef THEN Fields(Tail(q))
  ELSE <<Head(q)>> \o Fields(Tail(q))

QueryObjects ==
  {Obj(Fields(<<Entry("traceId", a), Entry("trace_id", b)>>)) :
     a \in {Undef, Str(""), Str("q-one"), Num(7)}, b \in {Undef, Str("q-two")}}

BodyObjects ==
  {Obj(Fields(<<Entry("traceId", a), Entry("user", u)>>)) :
     a \in {Undef, Str(""), Str("b-one"), Num(7)},
     u \in {Undef, Obj(<<Entry("traceId", Str("b-nested"))>>)}}

ParamObjects ==
  {Obj(Fields(<<Entry("id", a)>>)) :
     a \in {Undef, Str(""), Str("p-one"), Num(7)}}

Requests ==
  [headers : HeaderObjects, query : QueryObjects,
   body : BodyObjects, params : ParamObjects]

\* the configurations extractors are constructed with
GivenConfigs ==
  {[header |-> Arr(<<"x-trace-id", "x-request-id">>),
    query |-> Arr(<<"traceId", "trace_id">>),
    body |-> Arr(<<"traceId", "user.traceId">>),
    params |-> Arr(<<"id">>)],
   [header |-> Str("X-Request-Id"), query |-> Str("traceId"),
    body |-> Str("traceId"), params |-> Str("id")],
   [x \in {} |-> Undef]}

\* a TraceIdExtractor has been constructed and a request has arrived
ExtractInit ==
  /\ StoreInit
  /\ RestInit
  /\ exConfig \in {TraceIdExtractor(g) : g \in GivenConfigs}
  /\ request \in Requests
  /\ extracted = Pending

\* extractFromRequest(request) is called on the extractor
ExtractFromRequest ==
  /\ extracted = Pending
  /\ extracted' = extractFromRequest(exConfig, request)
  /\ UNCHANGED <<exConfig, request, storeVars, loggerVars, mwVars, sideVars>>

ExtractNext == ExtractFromRequest

ExtractSpec == ExtractInit /\ [][ExtractNext]_vars

(***************************************************************************)
(* Requests of unexpected shape: a location that is missing, null or not a *)
(* mapping, values of unexpected type, broken steps of a dotted body path  *)
(***************************************************************************)
HeaderShapes ==
  {Undef, Null, Num(5), Arr(<<Str("h-list")>>), Obj(<<>>),
   Obj(<<Entry("x-request-id", Str("h-request"))>>),
   Obj(<<Entry("x-request-id", Num(7))>>)}

QueryShapes ==
  {Undef, Null, Str("abc"), Num(5), Arr(<<Str("q-list")>>),
   Obj(<<Entry("traceId", Str("q-one"))>>),
   Obj(<<Entry("traceId", Arr(<<Str("q-list")>>))>>)}

BodyShapes ==
  {Undef, Null, Str("abc"),
   Obj(<<Entry("user", Null)>>), Obj(<<Entry("user", Str("u"))>>),
   Obj(<<Entry("user", Num(0))>>),
   Obj(<<Entry("user", Obj(<<Entry("traceId", Str("b-nested"))>>))>>),
   Obj(<<Entry("traceId", Str("b-one"))>>)}

ParamShapes ==
  {Undef, Null, Num(5), Obj(<<Entry("id", Str("p-one"))>>),
   Obj(<<Entry("id", Num(7))>>)}

ShapedRequests ==
  [headers : HeaderShapes, query : QueryShapes,
   body : BodyShapes, params : ParamShapes]

\* a TraceIdExtractor has been constructed and a request of any shape has
\* arrived
ShapeInit ==
  /\ StoreInit
  /\ RestInit
  /\ exConfig \in {TraceIdExtractor(g) : g \in GivenConfigs}
  /\ request \in ShapedRequests
  /\ extracted = Pending

ShapeSpec == ShapeInit /\ [][ExtractNext]_vars

(***************************************************************************)
(* Operations on the logger                                                *)
(***************************************************************************)
\* createLogger(given): the Logger constructor merges the configuration,
\* creates the adapter and runs configureTraceId on the store
CreateLogger(given) ==
  /\ Executing(Main)
  /\ logger' = createLogger(given)
  /\ config' = configureTraceId(config, logger'.config.traceId)
  /\ wasDisabled' = (wasDisabled \/ ~config'.enabled)
  /\ lastWriter' = Main
  /\ obs' = [op |-> "createLogger", given |-> given]
  /\ UNCHANGED <<cur, running, stack, runCalls, cbInvocations, extractVars,
                 mwVars, sideVars>>

\* logger.setLevel(level)
SetLevel(level) ==
  /\ Executing(Main)
  /\ logger' = setLevel(logger, level)
  /\ obs' = [op |-> "setLevel", level |-> level]
  /\ UNCHANGED <<config, cur, running, stack, runCalls, cbInvocations,
                 wasDisabled, lastWriter, extractVars, mwVars, sideVars>>

\* logger.updateConfig(given): merge, new adapter, configureTraceId, then
\* setLevel when a level is given
UpdateConfig(given) ==
  /\ Executing(Main)
  /\ logger' = updateConfig(logger, given)
  /\ config' = configureTraceId(config, logger'.config.traceId)
  /\ wasDisabled' = (wasDisabled \/ ~config'.enabled)
  /\ lastWriter' = Main
  /\ obs' = [op |-> "updateConfig", given |-> given]
  /\ UNCHANGED <<cur, running, stack, runCalls, cbInvocations, extractVars,
                 mwVars, sideVars>>

\* logger.isLevelEnabled(level)
IsLevelEnabled(level) ==
  /\ Executing(Main)
  /\ obs' = [op |-> "isLevelEnabled", level |-> level,
             got |-> isLevelEnabled(logger, level)]
  /\ UNCHANGED <<config, cur, running, stack, runCalls, cbInvocations,
                 wasDisabled, lastWriter, restVars>>

\* caller c calls logger.error / warn / info / debug / trace: the entry, if
\* any, is built and handed to the adapter before the first suspension
LogCall(c, method) ==
  /\ Executing(c)
  /\ obs' = [op |-> "log", caller |-> c, level |-> method,
             entry |-> logEntry(logger, method, config, cur)]
  /\ UNCHANGED <<config, cur, running, stack, runCalls, cbInvocations,
                 wasDisabled, lastWriter, restVars>>

\* caller c awaits logger.error / warn / info / debug / trace while
\* adapter.log ends with a
LogSettles(c, method, a) ==
  /\ Executing(c)
  /\ obs' = [op |-> "logged", caller |-> c, level |-> method,
             entry |-> logEntry(logger, method, config, cur),
             adapter |-> a,
             result |-> logSettles(logEntry(logger, method, config, cur), a)]
  /\ UNCHANGED <<config, cur, running, stack, runCalls, cbInvocations,
                 wasDisabled, lastWriter, restVars>>

LoggerNext ==
  \/ \E method \in LogMethods, a \in AdapterOutcomes :
       LogSettles(Main, method, a)
  \/ \E given \in LoggerConfigs : CreateLogger(given)
  \/ \E level \in LogLevels : SetLevel(level)
  \/ \E given \in LoggerConfigs : UpdateConfig(given)
  \/ \E level \in LogLevels : IsLevelEnabled(level)
  \/ \E method \in LogMethods : LogCall(Main, method)

LoggerSpec == Init /\ [][LoggerNext]_vars

\* the flows of the store, with log calls made from them: one call the
\* default logger emits (info) and one it filters (debug)
LogNext ==
  \/ \E f \in Flows, id \in TraceIds : RunWithTraceId(f, id)
  \/ \E f \in Flows : Await(f)
  \/ \E f \in Flows : Resume(f)
  \/ \E f \in Flows : Complete(f, [kind |-> "return", v |-> "v1"])
  \/ \E c \in Callers : Disable(c)
  \/ \E c \in Callers : Enable(c)
  \/ \E c \in Callers, method \in {"info", "debug"} : LogCall(c, method)

LogSpec == Init /\ [][LogNext]_vars

(***************************************************************************)
(* Operations on the timers                                                *)
(***************************************************************************)
\* Date.now() advances
Tick ==
  /\ now < MaxClock
  /\ now' = now + 1
  /\ obs' = NoObs
  /\ UNCHANGED <<quietVars, extractVars, loggerVars, mwVars, familyVars,
                 metaVars, timings, tasks>>

\* lg.time(label)
Time(lg, label) ==
  /\ timings' = time(timings, label, now, lg, FALSE)
  /\ obs' = [op |-> "time", logger |-> lg, label |-> label,
             before |-> timings[label]]
  /\ UNCHANGED <<quietVars, extractVars, loggerVars, mwVars, familyVars,
                 metaVars, now, tasks>>

\* lg.timeEnd(label) is called and runs to its await of this.warn /
\* this.info
TimeEndCall(lg, label) ==
  /\ tasks[lg] = Idle
  /\ tasks' = [tasks EXCEPT ![lg] =
                 [pc |-> "timeEnd", label |-> label,
                  before |-> timings[label],
                  got |-> timeEndGet(timings, label, now)]]
  /\ obs' = NoObs
  /\ UNCHANGED <<quietVars, extractVars, loggerVars, mwVars, familyVars,
                 metaVars, now, timings>>

\* the timeEnd call on lg goes on after its await and returns
TimeEndReturns(lg) ==
  /\ tasks[lg].pc = "timeEnd"
  /\ timings' = timeEndDone(timings, tasks[lg].label, tasks[lg].got)
  /\ tasks' = [tasks EXCEPT ![lg] = Idle]
  /\ obs' = [op |-> "timeEnd", logger |-> lg, label |-> tasks[lg].label,
             before |-> tasks[lg].before,
             returned |-> tasks[lg].got.duration]
  /\ UNCHANGED <<quietVars, extractVars, loggerVars, mwVars, familyVars,
                 metaVars, now>>

\* lg.timeAsync(label, fn) is called: time(label), then fn() is awaited
TimeAsyncCall(lg, label) ==
  /\ tasks[lg] = Idle
  /\ timings' = time(timings, label, now, lg, TRUE)
  /\ tasks' = [tasks EXCEPT ![lg] = [pc |-> "fn", label |-> label]]
  /\ obs' = NoObs
  /\ UNCHANGED <<quietVars, extractVars, loggerVars, mwVars, familyVars,
                 metaVars, now>>

\* fn settles with outcome o and timeAsync calls timeEnd(label), on either
\* branch of its try
TimeAsyncFnSettles(lg, o) ==
  /\ tasks[lg].pc = "fn"
  /\ tasks' = [tasks EXCEPT ![lg] =
                 [pc |-> "timeAsyncEnd", label |-> tasks[lg].label,
                  fn |-> o, before |-> timings[tasks[lg].label],
                  got |-> timeEndGet(timings, tasks[lg].label, now)]]
  /\ obs' = NoObs
  /\ UNCHANGED <<quietVars, extractVars, loggerVars, mwVars, familyVars,
                 metaVars, now, timings>>

\* the timeEnd call of timeAsync returns and timeAsync settles: `return
\* result` / `throw error`
TimeAsyncSettles(lg) ==
  /\ tasks[lg].pc = "timeAsyncEnd"
  /\ timings' = timeEndDone(timings, tasks[lg].label, tasks[lg].got)
  /\ tasks' = [tasks EXCEPT ![lg] = Idle]
  /\ obs' = [op |-> "timeAsync", logger |-> lg, label |-> tasks[lg].label,
             before |-> tasks[lg].before,
             fn |-> tasks[lg].fn, settled |-> tasks[lg].fn]
  /\ UNCHANGED <<quietVars, extractVars, loggerVars, mwVars, familyVars,
                 metaVars, now>>

\* lg.close(): timings.clear() once the adapter is closed
Close(lg) ==
  /\ timings' = [l \in Labels |-> NoTimer]
  /\ obs' = [op |-> "close", logger |-> lg, before |-> timings]
  /\ UNCHANGED <<quietVars, extractVars, loggerVars, mwVars, familyVars,
                 metaVars, now, tasks>>

TimerNext ==
  \/ Tick
  \/ \E lg \in Loggers, label \in Labels : Time(lg, label)
  \/ \E lg \in Loggers, label \in Labels : TimeEndCall(lg, label)
  \/ \E lg \in Loggers : TimeEndReturns(lg)
  \/ \E lg \in Loggers, label \in Labels : TimeAsyncCall(lg, label)
  \/ \E lg \in Loggers, o \in Outcomes : TimeAsyncFnSettles(lg, o)
  \/ \E lg \in Loggers : TimeAsyncSettles(lg)
  \/ \E lg \in Loggers : Close(lg)

TimerSpec == Init /\ [][TimerNext]_vars

(***************************************************************************)
(* Operations on the loggers made by the constructor and by child()        *)
(***************************************************************************)
\* caller c runs new Logger({ traceId: setting }): the constructor ends
\* with configureTraceId
Construct(c, setting) ==
  /\ Executing(c)
  /\ Cardinality(family) < MaxFamily
  /\ family' = family \cup {Logger([traceId |-> setting])}
  /\ config' = configureTraceId(config, setting)
  /\ wasDisabled' = (wasDisabled \/ ~config'.enabled)
  /\ lastWriter' = c
  /\ obs' = [op |-> "new Logger", caller |-> c, setting |-> setting]
  /\ UNCHANGED <<cur, running, stack, runCalls, cbInvocations, extractVars,
                 loggerVars, mwVars, timerVars, metaVars>>

\* caller c runs lg.child(context, data): the child is constructed, so
\* configureTraceId runs with its config
Child(c, lg, context, data) ==
  /\ Executing(c)
  /\ Cardinality(family) < MaxFamily
  /\ family' = family \cup {child(lg, context, data)}
  /\ config' = configureTraceId(config,
                                child(lg, context, data).config.traceId)
  /\ wasDisabled' = (wasDisabled \/ ~config'.enabled)
  /\ lastWriter' = c
  /\ obs' = [op |-> "child", caller |-> c, parent |-> lg,
             setting |-> lg.config.traceId,
             context |-> context, data |-> data,
             made |-> child(lg, context, data),
             entry |-> payload(child(lg, context, data), NoData)]
  /\ UNCHANGED <<cur, running, stack, runCalls, cbInvocations, extractVars,
                 loggerVars, mwVars, timerVars, metaVars>>

\* updateConfig(given), where given has a traceId or (Undef) has none:
\* this.config = { ...this.config, ...config }
familyUpdateConfig(lg, given) ==
  [lg EXCEPT !.config = Merge(@, [traceId |-> given])]

\* caller c runs lg.updateConfig(given): the merge, then configureTraceId
FamilyUpdateConfig(c, lg, given) ==
  /\ Executing(c)
  /\ family' = (family \ {lg}) \cup {familyUpdateConfig(lg, given)}
  /\ config' = configureTraceId(config,
                                familyUpdateConfig(lg, given).config.traceId)
  /\ wasDisabled' = (wasDisabled \/ ~config'.enabled)
  /\ lastWriter' = c
  /\ obs' = [op |-> "logger.updateConfig", caller |-> c,
             setting |-> familyUpdateConfig(lg, given).config.traceId]
  /\ UNCHANGED <<cur, running, stack, runCalls, cbInvocations, extractVars,
                 loggerVars, mwVars, timerVars, metaVars>>

\* caller c runs lg.addContextData(data)
AddContextData(c, lg, data) ==
  /\ Executing(c)
  /\ family' = (family \ {lg}) \cup {addContextData(lg, data)}
  /\ obs' = [op |-> "addContextData", caller |-> c]
  /\ UNCHANGED <<quietVars, extractVars, loggerVars, mwVars, timerVars,
                 metaVars>>

\* the top-level code and one flow make the calls
FamilyCallers == {Main, "A"}

FamilyNext ==
  \/ \E c \in FamilyCallers, setting \in FamilySettings :
       Construct(c, setting)
  \/ \E lg \in family, context \in ChildContexts, data \in ChildData :
       Child(Main, lg, context, data)
  \/ \E lg \in family, given \in LoggerTraceSettings \cup {Undef} :
       FamilyUpdateConfig(Main, lg, given)
  \/ \E lg \in family :
       AddContextData(Main, lg, [userId |-> Str("u1"), orderId |-> Undef])
  \/ \E c \in FamilyCallers : Disable(c)
  \/ \E c \in FamilyCallers : Enable(c)
  \/ RunWithTraceId("A", "T1")
  \/ Complete("A", [kind |-> "return", v |-> "v1"])
  \/ \E c \in FamilyCallers : ReadTraceId(c)
  \/ \E c \in FamilyCallers : LogCall(c, "info")

FamilySpec == Init /\ [][FamilyNext]_vars

(***************************************************************************)
(* Operations on the metadata of the trace contexts                        *)
(***************************************************************************)
\* the frames of flow f whose callback runs under a context of its own
BoundFrames(f) == {i \in 1..Len(stack[f]) : stack[f][i].bound}

\* asyncLocalStorage.getStore() for caller c, as the slot of the context:
\* that of the innermost frame that bound one, none for top-level code
currentSlot(c) ==
  IF c = Main THEN Unbound
  ELSE IF BoundFrames(c) = {} THEN Unbound
  ELSE <<c, CHOOSE i \in BoundFrames(c) : \A j \in BoundFrames(c) : j <= i>>

\* the contexts that are bound to a callback in progress
ActiveSlots == {s \in Slots : s[2] \in BoundFrames(s[1])}

\* runWithTraceId(traceId, callback, metadata) by flow f: as
\* RunWithTraceId, and the new context, if one is made, refers to the
\* metadata argument
RunWithMetadata(f, traceId, arg) ==
  /\ runCalls < MaxCalls
  /\ \/ running = Main /\ stack[f] = <<>>
     \/ running = f /\ stack[f] # <<>> /\ Len(stack[f]) < MaxDepth
  /\ running' = f
  /\ stack' = [stack EXCEPT ![f] = Append(@, NewFrame("sync", traceId))]
  /\ cur' = RunStore(config, cur, traceId)
  /\ runCalls' = runCalls + 1
  /\ cbInvocations' = cbInvocations + RunInvocations(config)
  /\ metadata' = IF ~config.enabled THEN metadata
                 ELSE bindMetadata(metadata, <<f, Len(stack[f]) + 1>>, arg)
  /\ obs' = [op |-> "enter", caller |-> f]
  /\ UNCHANGED <<config, wasDisabled, lastWriter, extractVars, loggerVars,
                 mwVars, timerVars, familyVars>>

\* caller c calls setMetadata(key, value)
SetMetadata(c, key, value) ==
  /\ Executing(c)
  /\ metadata' = setMetadata(metadata, currentSlot(c), key, value)
  /\ obs' = [op |-> "setMetadata", caller |-> c, slot |-> currentSlot(c),
             key |-> key, value |-> value, before |-> metadata]
  /\ UNCHANGED <<quietVars, extractVars, loggerVars, mwVars, timerVars,
                 familyVars>>

\* caller c calls getMetadata(key)
GetMetadata(c, key) ==
  /\ Executing(c)
  /\ obs' = [op |-> "getMetadata", caller |-> c, slot |-> currentSlot(c),
             key |-> key,
             got |-> getMetadata(metadata, currentSlot(c), key)]
  /\ UNCHANGED <<quietVars, extractVars, loggerVars, mwVars, sideVars>>

MetaNext ==
  \/ \E f \in Flows, arg \in MetadataArgs : RunWithMetadata(f, "T1", arg)
  \/ \E f \in Flows : Await(f)
  \/ \E f \in Flows : Resume(f)
  \/ \E f \in Flows : Complete(f, [kind |-> "return", v |-> "v1"])
  \/ \E c \in Callers : Disable(c)
  \/ \E c \in Callers : Enable(c)
  \/ \E c \in Callers, k \in MetaKeys, v \in MetaValues : SetMetadata(c, k, v)
  \/ \E c \in Callers, k \in MetaKeys : GetMetadata(c, k)

MetaSpec == Init /\ [][MetaNext]_vars

(***************************************************************************)
(* LogitronTraceMiddleware                                                 *)
(***************************************************************************)
\* the names the middleware probes at every location by default
trace_ids ==
  <<"x-trace-id", "x-request-id", "x-correlation-id", "trace-id",
    "request-id">>

\* mutant: a configuration that is present counts as enabled
MwEnabledIfPresent(tc) == tc # Undef

\* !this.traceConfig?.enabled
MwEnabled(tc) == IF tc = Undef THEN FALSE ELSE tc.enabled

\* traceContext.configure(partial): { ...this.config, ...partial } on the
\* fields enabled, generator and contextKey; a field the partial does not
\* have, modelled as Undef, keeps its value
configure(cfg, partial) ==
  [enabled |-> partial.enabled,
   generator |-> IF partial.generator # Undef THEN partial.generator
                 ELSE cfg.generator,
   contextKey |-> IF partial.contextKey # Undef THEN partial.contextKey
                  ELSE cfg.contextKey]

\* this.traceConfig?.extractor || { header: trace_ids, query: trace_ids,
\* body: trace_ids, params: trace_ids }
MwExtractorConfig(tc) ==
  IF tc.extractor # Undef THEN tc.extractor
  ELSE [header |-> Arr(trace_ids), query |-> Arr(trace_ids),
        body |-> Arr(trace_ids), params |-> Arr(trace_ids)]

\* the route parameters of the request view: { id: path[1] } for a path
\* list that starts with 'param', nothing for another path list, a copy of
\* the parameters otherwise; nothing when req.params is not an object
RouteParams(params) ==
  IF ~(Truthy(params) /\ params.t \in {"object", "array"}) THEN Obj(<<>>)
  ELSE IF Get(params, "path").t = "array"
    THEN LET pathSegments == Get(params, "path").v
         IN IF Len(pathSegments) >= 2 /\ pathSegments[1] = Str("param")
              THEN Obj(<<Entry("id", pathSegments[2])>>)
              ELSE Obj(<<>>)
  ELSE Obj(Entries(params))

\* requestData: the view handed to the extractor
RequestData(req) ==
  [headers |-> req.headers, query |-> req.query, body |-> req.body,
   params |-> RouteParams(req.params)]

\* mutant: the generator is called whatever the extractor found
ResolveIdAlwaysGenerates(found, generator) ==
  IF Truthy(generator)
    THEN [id |-> generator.result, generatorCalls |-> 1]
    ELSE [id |-> found, generatorCalls |-> 0]

\* if (!traceId && this.traceConfig.generator) traceId = generator()
ResolveId(found, generator) ==
  IF ~Truthy(found) /\ Truthy(generator)
    THEN [id |-> generator.result, generatorCalls |-> 1]
    ELSE [id |-> found, generatorCalls |-> 0]

\* mutant: the catch block reports the error and raises it again
CatchSetupRethrows(error) ==
  [consoleErrors |-> 1, nextCalls |-> 0, surfaced |-> Str(error)]

\* catch (error) { console.error(...); next(); }
CatchSetup(error) ==
  [consoleErrors |-> 1, nextCalls |-> 1, surfaced |-> Undef]

\* the setup once the request has been searched and the id resolved: the
\* branch taken, the store configuration left, the calls made, the id
SetupResult(configured, found, resolved) ==
  IF IsRaised(found)
    THEN [branch |-> "failed", config |-> configured,
          extractorRuns |-> 1, generatorCalls |-> 0, found |-> Undef,
          id |-> Undef, error |-> Str(found.v)]
  ELSE IF IsRaised(resolved.id)
    THEN [branch |-> "failed", config |-> configured,
          extractorRuns |-> 1,
          generatorCalls |-> resolved.generatorCalls, found |-> found,
          id |-> Undef, error |-> Str(resolved.id.v)]
  ELSE [branch |-> IF Truthy(resolved.id) THEN "bound" ELSE "unbound",
        config |-> configured, extractorRuns |-> 1,
        generatorCalls |-> resolved.generatorCalls, found |-> found,
        id |-> resolved.id, error |-> Undef]

\* the generator fallback applied to what the extractor found
SetupResolved(tc, configured, found) ==
  SetupResult(configured, found,
              IF IsRaised(found) THEN [id |-> Undef, generatorCalls |-> 0]
              ELSE ResolveId(found, tc.generator))

\* new TraceIdExtractor(extractorConfig).extractFromRequest(requestData)
SetupExtract(tc, req) ==
  extractFromRequest(TraceIdExtractor(MwExtractorConfig(tc)),
                     RequestData(req))

\* use() up to its first call of next
UseSetup(tc, cfg, req) ==
  IF ~MwEnabled(tc)
    THEN [branch |-> "disabled", config |-> cfg, extractorRuns |-> 0,
          generatorCalls |-> 0, found |-> Undef, id |-> Undef,
          error |-> Undef]
    ELSE SetupResolved(tc, configure(cfg, tc), SetupExtract(tc, req))

\* the frame of a call of next: inside runWithTraceId(id, ...) on the bound
\* branch, a plain call otherwise
NextFrame(cfg, store, id) ==
  [kind |-> "next", traceId |-> IF Truthy(id) THEN id.v ELSE "",
   bound |-> Truthy(id) /\ cfg.enabled,
   store |-> IF Truthy(id) THEN RunStore(cfg, store, id.v) ELSE store,
   saved |-> store, awaited |-> FALSE, reenabled |-> FALSE]

\* what the catch block adds to a setup: nothing unless the setup failed
SetupCaught(s) ==
  IF s.branch = "failed" THEN CatchSetup(s.error.v)
  ELSE [consoleErrors |-> 0, nextCalls |-> 1, surfaced |-> Undef]

\* the invocation as use() keeps it while next runs, with the request and
\* the route parameters of its request view
MwCall(f, s, caught, req) ==
  [phase |-> IF caught.surfaced # Undef THEN "raised"
             ELSE IF s.branch = "failed" THEN "catch" ELSE "try",
   flow |-> f, enabled |-> MwEnabled(traceConfig), branch |-> s.branch,
   configBefore |-> config, traceConfigBefore |-> traceConfig,
   extractorRuns |-> s.extractorRuns, generatorCalls |-> s.generatorCalls,
   found |-> s.found, id |-> s.id, setupError |-> s.error,
   consoleErrors |-> caught.consoleErrors, nextCalls |-> caught.nextCalls,
   nextErrors |-> <<>>, surfaced |-> caught.surfaced, req |-> req,
   params |-> IF s.branch = "disabled" THEN Undef
              ELSE RouteParams(req.params)]

\* use() with setup s reaches its call of next with frame fr (or, were the
\* catch block to raise, its end)
UseEnter(f, s, caught, fr, req) ==
  /\ config' = s.config
  /\ lastWriter' = IF s.branch = "disabled" THEN lastWriter ELSE Main
  /\ mw' = MwCall(f, s, caught, req)
  /\ IF caught.surfaced # Undef
       THEN /\ UNCHANGED <<stack, running, cur>>
            /\ obs' = [op |-> "use", outcome |-> "raised", call |-> mw']
       ELSE /\ stack' = [stack EXCEPT ![f] = <<fr>>]
            /\ running' = f
            /\ cur' = fr.store
            /\ obs' = [op |-> "use-enter"]

\* the setup s of a call of use() is followed by its call of next
UseStep(f, s, req) ==
  UseEnter(f, s, SetupCaught(s), NextFrame(s.config, cur, s.id), req)

\* use(req, res, next) is called for flow f and runs up to its call of next
Use(f, req) ==
  /\ running = Main /\ stack[f] = <<>>
  /\ runCalls < MaxCalls
  /\ UseStep(f, UseSetup(traceConfig, config, req), req)
  /\ runCalls' = runCalls + 1
  /\ UNCHANGED <<cbInvocations, wasDisabled, traceConfig, extractVars,
                 loggerVars, sideVars>>

\* a call of next made by use() is running in flow f
InNext(f) ==
  /\ running = f /\ stack[f] # <<>> /\ Top(stack[f]).kind = "next"
  /\ mw.phase \in {"try", "catch"} /\ mw.flow = f

\* the call of next returns and use() returns to its caller, which ends the
\* invocation the middleware keeps for itself; the downstream handler is
\* done or goes on later, after a suspension
NextReturns(f, pending) ==
  /\ InNext(f)
  /\ mw' = MwIdle
  /\ stack' = IF pending
                THEN [stack EXCEPT ![f][Len(stack[f])].awaited = TRUE]
                ELSE [stack EXCEPT ![f] = Pop(@)]
  /\ running' = Main
  /\ cur' = RestoreStore(Top(stack[f]))
  /\ obs' = [op |-> "use", outcome |-> "returned", call |-> mw]
  /\ UNCHANGED <<config, runCalls, cbInvocations, wasDisabled, lastWriter,
                 traceConfig, extractVars, loggerVars, sideVars>>

\* the call of next raises e: inside the try block the catch block reports
\* it and calls next again, outside any scope; inside the catch block the
\* error leaves use()
NextThrows(f, e) ==
  /\ InNext(f)
  /\ IF mw.phase = "try"
       THEN /\ mw' = [mw EXCEPT !.phase = "catch",
                                !.consoleErrors = @ + 1,
                                !.nextCalls = @ + 1,
                                !.nextErrors = Append(@, e)]
            /\ stack' = [stack EXCEPT ![f] =
                           <<NextFrame(config, RestoreStore(Top(stack[f])),
                                       Undef)>>]
            /\ running' = f
            /\ obs' = NoObs
       ELSE /\ mw' = MwIdle
            /\ stack' = [stack EXCEPT ![f] = Pop(@)]
            /\ running' = Main
            /\ obs' = [op |-> "use", outcome |-> "raised",
                       call |-> [mw EXCEPT !.nextErrors = Append(@, e),
                                           !.surfaced = Str(e)]]
  /\ cur' = RestoreStore(Top(stack[f]))
  /\ UNCHANGED <<config, runCalls, cbInvocations, wasDisabled, lastWriter,
                 traceConfig, extractVars, loggerVars, sideVars>>

\* the downstream handler of f, resumed after use() has returned
Downstream(f) ==
  /\ running = f /\ stack[f] # <<>> /\ Top(stack[f]).kind = "next"
  /\ ~(mw.phase \in {"try", "catch"} /\ mw.flow = f)

\* the resumed handler reaches another await
DownstreamAwaits(f) == Downstream(f) /\ Await(f)

\* the resumed handler comes to its end
DownstreamEnds(f) ==
  /\ Downstream(f)
  /\ stack' = [stack EXCEPT ![f] = Pop(@)]
  /\ running' = Main
  /\ cur' = RestoreStore(Top(stack[f]))
  /\ obs' = NoObs
  /\ UNCHANGED <<config, runCalls, cbInvocations, wasDisabled, lastWriter,
                 restVars>>

\* a generator function: what a call of it returns or raises
Fn(name, result) == [t |-> "function", name |-> name, result |-> result]

\* a header name that is not among trace_ids
CustomHeader == "x-tenant-trace"

\* the configurations the middleware is constructed with
MwConfigs ==
  {Undef,
   [enabled |-> FALSE, generator |-> Fn("gen", Str("G1")),
    header |-> Undef, contextKey |-> Undef, extractor |-> Undef],
   [enabled |-> TRUE, generator |-> Undef, header |-> Undef,
    contextKey |-> Undef, extractor |-> Undef],
   [enabled |-> TRUE, generator |-> Fn("gen", Str("G1")),
    header |-> Undef, contextKey |-> Str("requestId"),
    extractor |-> Undef],
   [enabled |-> TRUE, generator |-> Fn("broken", Raised("GenError")),
    header |-> Undef, contextKey |-> Undef, extractor |-> Undef],
   [enabled |-> TRUE, generator |-> Undef, header |-> Undef,
    contextKey |-> Undef, extractor |-> [params |-> Str("id")]],
   [enabled |-> TRUE, generator |-> Undef, header |-> Str(CustomHeader),
    contextKey |-> Undef, extractor |-> Undef]}

\* requests as Express hands them over: header names in lower case with
\* string values, a parsed query, a body if one was parsed, route
\* parameters flat or as a path list; and a headers object that cannot be
\* enumerated
PlainRequest ==
  [headers |-> Obj(<<>>), query |-> Obj(<<>>), body |-> Undef,
   params |-> Obj(<<>>)]

MwRequests ==
  {PlainRequest,
   [PlainRequest EXCEPT
      !.headers = Obj(<<Entry("x-request-id", Str("abc-123"))>>)],
   [PlainRequest EXCEPT !.params = Obj(<<Entry("id", Str("p-1"))>>)],
   [PlainRequest EXCEPT
      !.params = Obj(<<Entry("path", Arr(<<Str("param"), Str("p-2")>>))>>)],
   [PlainRequest EXCEPT
      !.headers = Obj(<<Entry(CustomHeader, Str("h-9"))>>)],
   [PlainRequest EXCEPT
      !.params = Obj(<<Entry("path", Arr(<<Str("users"), Str("p-3")>>))>>)],
   [PlainRequest EXCEPT !.headers = Hostile]}

\* the errors a downstream handler raises
NextErrors == {"E1", "E2"}

\* a middleware has been constructed, the store is as the process started it
MwInit ==
  /\ StoreInit
  /\ logger = DefaultLogger
  /\ traceConfig \in MwConfigs
  /\ mw = MwIdle
  /\ SideInit
  /\ exConfig = TraceIdExtractor([x \in {} |-> Undef])
  /\ request = NoRequest
  /\ extracted = NoRequest

MwNext ==
  \/ \E f \in Flows, req \in MwRequests : Use(f, req)
  \/ \E f \in Flows, pending \in BOOLEAN : NextReturns(f, pending)
  \/ \E f \in Flows, e \in NextErrors : NextThrows(f, e)
  \/ \E f \in Flows : Resume(f)
  \/ \E f \in Flows : DownstreamAwaits(f)
  \/ \E f \in Flows : DownstreamEnds(f)
  \/ \E c \in Callers : ReadTraceId(c)
  \/ \E c \in Callers : Disable(c)
  \/ \E c \in Callers : Enable(c)

MwSpec == MwInit /\ [][MwNext]_vars

(***************************************************************************)
(* TraceIdExtractor.updateConfig and getConfig                             *)
(***************************************************************************)
\* mutant: the configuration given replaces the old one as a whole
extractorUpdateConfigReplaces(cfg, c) ==
  [k \in DOMAIN cfg |-> IF k \in DOMAIN c THEN c[k] ELSE Undef]

\* updateConfig(c): { ...this.config, ...config }
extractorUpdateConfig(cfg, c) ==
  [k \in DOMAIN cfg |-> IF k \in DOMAIN c THEN c[k] ELSE cfg[k]]

\* getConfig(): { ...this.config }
extractorGetConfig(cfg) == [k \in DOMAIN cfg |-> cfg[k]]

\* the configurations an extractor is updated with
ConfigUpdates ==
  {[query |-> Str("x-trace-id")],
   [body |-> Str("request-id")],
   [header |-> Str("x-request-id"), params |-> Str("id")]}

\* requests that carry an id in one location each
ConfigRequests ==
  {[PlainRequest EXCEPT
      !.headers = Obj(<<Entry("x-trace-id", Str("abc-123"))>>)],
   [PlainRequest EXCEPT
      !.query = Obj(<<Entry("x-trace-id", Str("q-1"))>>)],
   [PlainRequest EXCEPT
      !.body = Obj(<<Entry("request-id", Str("b-1"))>>)]}

\* extractor.extractFromRequest(req)
ExtractorCall(req) ==
  /\ request' = req
  /\ extracted' = extractFromRequest(exConfig, req)
  /\ obs' = [op |-> "extractFromRequest", before |-> exConfig]
  /\ UNCHANGED <<exConfig, quietVars, loggerVars, mwVars, sideVars>>

\* extractor.updateConfig(c)
ExtractorUpdateConfig(c) ==
  /\ exConfig' = extractorUpdateConfig(exConfig, c)
  /\ obs' = [op |-> "extractor.updateConfig", given |-> c,
             before |-> exConfig]
  /\ UNCHANGED <<request, extracted, quietVars, loggerVars, mwVars, sideVars>>

\* extractor.getConfig()
ExtractorGetConfig ==
  /\ obs' = [op |-> "extractor.getConfig", before |-> exConfig,
             got |-> extractorGetConfig(exConfig)]
  /\ UNCHANGED <<extractVars, quietVars, loggerVars, mwVars, sideVars>>

ConfigNext ==
  \/ \E req \in ConfigRequests : ExtractorCall(req)
  \/ \E c \in ConfigUpdates : ExtractorUpdateConfig(c)
  \/ ExtractorGetConfig

ConfigSpec == Init /\ [][ConfigNext]_vars

(***************************************************************************)
(* Properties of the trace context store                                   *)
(***************************************************************************)
\* the indices of the frames of s that bound a context
BoundAt(s) == {i \in 1..Len(s) : s[i].bound}

\* the id of the innermost scope bound around the running code of caller c,
\* read off the runWithTraceId* calls c has made and not yet left
InnermostId(c) ==
  IF c = Main \/ BoundAt(stack[c]) = {} THEN Undef
  ELSE LET i == CHOOSE k \in BoundAt(stack[c]) :
                  \A j \in BoundAt(stack[c]) : j <= k
       IN Str(stack[c][i].traceId)

IsRead == obs.op = "getCurrentTraceId"

\* C1: flows bound with different ids whose continuations interleave each
\* read their own id: a getCurrentTraceId() call inside a flow whose scope
\* was bound with T returns T while tracing is on, before and after every
\* suspension, and it never returns an id that only another flow has bound.
C1_FlowsAreIsolated ==
  (IsRead /\ obs.caller \in Flows) =>
    LET f == obs.caller
        own == {Str(stack[f][i].traceId) : i \in BoundAt(stack[f])}
    IN /\ obs.got \in own \cup {Undef}
       /\ (config.enabled /\ Len(stack[f]) = 1 /\ stack[f][1].bound)
             => obs.got = Str(stack[f][1].traceId)

\* C1 witness: A, bound with T1, was suspended and resumed and reads T1
\* while B, bound with T2, is suspended at an await.
C1_Witness ==
  /\ IsRead /\ obs.caller = "A" /\ obs.got = Str("T1")
  /\ Len(stack["A"]) = 1 /\ stack["A"][1].awaited
  /\ Len(stack["B"]) = 1 /\ stack["B"][1].bound
  /\ stack["B"][1].traceId = "T2" /\ stack["B"][1].awaited

\* C2: at any nesting depth the innermost bound id is the current one: with
\* tracing on, what getCurrentTraceId() returns to the running code is the
\* id of the innermost scope it is in, in the inner callback, back in the
\* outer callback after the inner call has returned, and none at top level
\* after the outermost call has returned.
C2_InnermostScopeWins ==
  /\ config.enabled => getCurrentTraceId(config, cur) = InnermostId(running)
  /\ (IsRead /\ config.enabled) => obs.got = InnermostId(obs.caller)

\* C2 witness: the inner call, bound with T2, has just returned into the
\* outer callback, bound with T1, and a read gives T1 again.
C2_Witness ==
  /\ obs.op = "returned" /\ obs.bound /\ obs.traceId = "T2"
  /\ running = obs.caller /\ Len(stack[running]) = 1
  /\ stack[running][1].bound /\ stack[running][1].traceId = "T1"
  /\ getCurrentTraceId(config, cur) = Str("T1")

\* C3 as stated: inside a bound scope every getCurrentTraceId() call returns
\* the bound id, whatever store operations the other flows perform.
C3_StableWhateverOthersDo ==
  (IsRead /\ obs.caller \in Flows /\ lastWriter # obs.caller
     /\ Top(stack[obs.caller]).bound)
    => obs.got = Str(Top(stack[obs.caller]).traceId)

\* C3 amended: inside a bound scope every getCurrentTraceId() call returns
\* the bound id when tracing is enabled at the time of the call and none
\* when it is disabled, whichever flow switched it.
C3_StableWhileEnabled ==
  (IsRead /\ obs.caller \in Flows /\ Top(stack[obs.caller]).bound)
    => obs.got = IF config.enabled
                   THEN Str(Top(stack[obs.caller]).traceId) ELSE Undef

\* C3 witness: a flow resumed in its bound scope reads none, tracing having
\* been switched off by another caller while it was suspended.
C3_Witness ==
  /\ IsRead /\ obs.caller \in Flows /\ obs.got = Undef
  /\ Top(stack[obs.caller]).bound /\ Top(stack[obs.caller]).awaited
  /\ lastWriter \notin {obs.caller, "nobody"}

\* C4: while tracing is disabled getCurrentTraceId() returns none to every
\* caller, inside scopes bound earlier too; a scope started by
\* runWithTraceId*(T, cb) after tracing was enabled again reads T in cb.
C4_DisableThenEnable ==
  /\ ~config.enabled => getCurrentTraceId(config, cur) = Undef
  /\ (IsRead /\ ~config.enabled) => obs.got = Undef
  /\ (IsRead /\ config.enabled /\ obs.caller \in Flows
        /\ Top(stack[obs.caller]).reenabled)
       => obs.got = Str(Top(stack[obs.caller]).traceId)

\* C4 witness: a scope started after disable() and enable() reads its id.
C4_Witness ==
  /\ IsRead /\ obs.caller \in Flows
  /\ Top(stack[obs.caller]).reenabled
  /\ obs.got = Str(Top(stack[obs.caller]).traceId)

\* C5 as stated: while the enabled flag is false no runWith* call binds a
\* context and no read of the store, getCurrentTraceId() or
\* getCurrentContext(), yields a trace id.
C5_DisabledStoreReportsNothing ==
  ~config.enabled =>
    /\ obs.op \in {"getCurrentTraceId", "getCurrentContext"} => obs.got = Undef
    /\ obs.op = "enter" => ~Top(stack[obs.caller]).bound

\* C6: runWithTraceId invokes its callback exactly once and hands the
\* callback's value, or the error it raised, to its caller, enabled or
\* disabled; when disabled nothing is bound, the callback runs under the
\* store that was visible before the call.
C6_RunWithTraceIdPassesThrough ==
  /\ cbInvocations = runCalls
  /\ obs.op = "returned" => obs.got = obs.cb
  /\ \A f \in Flows : \A i \in 1..Len(stack[f]) :
       ~stack[f][i].bound => stack[f][i].store = stack[f][i].saved
  /\ (obs.op = "enter" /\ ~Top(stack[obs.caller]).bound)
       => cur = Top(stack[obs.caller]).saved

\* C6 witness: a runWithTraceId call made while tracing was disabled raises
\* the error of its callback.
C6_Witness ==
  /\ obs.op = "returned" /\ ~obs.bound
  /\ obs.cb.kind = "throw" /\ obs.got = obs.cb

\* C7: the promise of runWithTraceIdAsync settles exactly once and as the
\* callback does: resolved with its value, rejected with the very error it
\* raised, before or after a suspension, enabled or disabled.
C7_AsyncSettlesAsCallback ==
  obs.op = "settled" =>
    /\ Len(obs.settles) = 1
    /\ obs.settles[1] =
         [how |-> IF obs.cb.kind = "return" THEN "resolve" ELSE "reject",
          v |-> obs.cb.v]

\* C7 witness: a bound callback raises E2 after a suspension and the promise
\* rejects with E2.
C7_Witness ==
  /\ obs.op = "settled" /\ obs.bound /\ obs.awaited
  /\ obs.cb = [kind |-> "throw", v |-> "E2"]
  /\ obs.settles = <<[how |-> "reject", v |-> "E2"]>>

(***************************************************************************)
(* Properties of the extractor                                             *)
(***************************************************************************)
Extracted == extracted \notin {Pending, NoRequest}

\* the names configured for a location, none when it is not configured
NamesAt(loc) == IF Truthy(exConfig[loc]) THEN KeysOf(exConfig[loc]) ELSE <<>>

Tagged(loc) ==
  [i \in 1..Len(NamesAt(loc)) |-> [loc |-> loc, name |-> NamesAt(loc)[i]]]

\* every configured (location, name) in the order of precedence
Probes ==
  Tagged("header") \o Tagged("query") \o Tagged("body") \o Tagged("params")

LowerProbes == Tagged("query") \o Tagged("body") \o Tagged("params")

FirstElement(v) ==
  IF v.t = "array" THEN (IF Len(v.v) > 0 THEN v.v[1] ELSE Undef) ELSE v

\* the request's header entries whose name equals `name` up to case
Matching(name) ==
  {i \in 1..Len(Entries(request.headers)) :
     toLowerCase(request.headers.v[i].k) = toLowerCase(name)}

\* the value the request holds for a probe: for a header the first entry, in
\* the request's order, with that name up to case (its first element when
\* it is a list), for the other locations the field, nested for a body path
ValueAt(probe) ==
  CASE probe.loc = "header" ->
         IF Matching(probe.name) = {} THEN Undef
         ELSE FirstElement(request.headers.v[
                CHOOSE i \in Matching(probe.name) :
                  \A j \in Matching(probe.name) : i <= j].v)
    [] probe.loc = "body" ->
         IF probe.name = "user.traceId"
           THEN Get(Get(request.body, "user"), "traceId")
           ELSE Get(request.body, probe.name)
    [] OTHER -> Get(request[probe.loc], probe.name)

NonEmptyString(v) == v.t = "string" /\ v.v # ""

\* a header probe is a match on any non-empty value, the others on a
\* non-empty string
Hit(probe) ==
  IF probe.loc = "header" THEN ValueAt(probe) \notin {Undef, Str("")}
  ELSE NonEmptyString(ValueAt(probe))

FirstHit(probes) ==
  IF \E i \in 1..Len(probes) : Hit(probes[i])
    THEN ValueAt(probes[CHOOSE i \in 1..Len(probes) :
                          Hit(probes[i]) /\ \A j \in 1..(i - 1) : ~Hit(probes[j])])
    ELSE Undef

\* the request with its headers in the order p
Reordered(p) ==
  [request EXCEPT !.headers =
     Obj([i \in 1..Len(request.headers.v) |-> request.headers.v[p[i]]])]

OrderIndependent ==
  \A p \in Permutations(1..Len(Entries(request.headers))) :
    extractFromRequest(exConfig, Reordered(p)) = extracted

\* a configured header name holds a non-empty value somewhere in the request
NameHasValue(name) ==
  \E i \in Matching(name) :
    FirstElement(request.headers.v[i].v) \notin {Undef, Str("")}

\* C8 as stated: locations are probed in the order header, query, body,
\* params and names in list order, the first usable value is returned; among
\* the configured header names the first one with a non-empty value wins,
\* whatever the order of the headers in the request.
C8_FirstNameWinsInAnyOrder ==
  Extracted =>
    /\ IF \E i \in 1..Len(NamesAt("header")) : NameHasValue(NamesAt("header")[i])
         THEN LET n == NamesAt("header")[
                         CHOOSE i \in 1..Len(NamesAt("header")) :
                           /\ NameHasValue(NamesAt("header")[i])
                           /\ \A j \in 1..(i - 1) :
                                ~NameHasValue(NamesAt("header")[j])]
              IN \E i \in Matching(n) :
                   /\ extracted = FirstElement(request.headers.v[i].v)
                   /\ extracted \notin {Undef, Str("")}
         ELSE extracted = FirstHit(LowerProbes)
    /\ OrderIndependent

\* C8 amended: the result is the value of the first probe, in the order
\* header, query, body, params and list order within a location, that is a
\* match, where a header name stands for the first header of the request, in
\* the request's own order, whose name equals it up to case; the result does
\* not depend on the order of the headers when no two of them have names
\* equal up to case.
C8_FirstMatchWins ==
  Extracted =>
    /\ extracted = FirstHit(Probes)
    /\ (\A i, j \in 1..Len(Entries(request.headers)) :
          i # j => toLowerCase(request.headers.v[i].k)
                     # toLowerCase(request.headers.v[j].k))
         => OrderIndependent

\* C8 witness: non-empty strings at a configured header, query field, body
\* field and route parameter at once, and the header value is returned.
C8_Witness ==
  /\ Extracted /\ extracted = Str("h-request")
  /\ Len(NamesAt("header")) = 2
  /\ ValueAt([loc |-> "header", name |-> "x-trace-id"]) = Undef
  /\ Get(request.query, "traceId") = Str("q-one")
  /\ Get(request.body, "traceId") = Str("b-one")
  /\ Get(request.params, "id") = Str("p-one")

\* C9: an empty string is never a match: the result is never the empty
\* string; when the first configured header holds the empty string the
\* result is the first match among the lower-precedence probes, so a value
\* of one of them whenever one holds a non-empty string; when every probe
\* holds the empty string or nothing the result is none.
C9_EmptyStringIsNoMatch ==
  Extracted =>
    /\ extracted # Str("")
    /\ (Probes # <<>> /\ Probes[1].loc = "header"
          /\ ValueAt(Probes[1]) = Str(""))
         => /\ extracted = FirstHit(Tail(Probes))
            /\ (\E i \in 2..Len(Probes) : NonEmptyString(ValueAt(Probes[i])))
                 => /\ extracted # Undef
                    /\ \E i \in 2..Len(Probes) : extracted = ValueAt(Probes[i])
    /\ (\A i \in 1..Len(Probes) : ValueAt(Probes[i]) \in {Undef, Str("")})
         => extracted = Undef

\* C9 witness: the empty string at the first configured header, a non-empty
\* string at a query field, and the query value is returned.
C9_Witness ==
  /\ Extracted /\ Len(Probes) > 1
  /\ Probes[1].loc = "header" /\ ValueAt(Probes[1]) = Str("")
  /\ extracted = Str("q-two")
  /\ Get(request.query, "traceId") = Str("")

\* C10: a non-string value at a query, body or params field is skipped and
\* the search goes on: with no header match the result is the first
\* non-empty string among the query, body and params probes, never a number,
\* and none when every such field holds a number.
C10_NonStringsAreSkipped ==
  (Extracted
     /\ \A i \in 1..Len(Tagged("header")) : ~Hit(Tagged("header")[i])) =>
    /\ extracted = FirstHit(LowerProbes)
    /\ extracted.t \in {"undefined", "string"}
    /\ (\A i \in 1..Len(LowerProbes) : ValueAt(LowerProbes[i]).t = "number")
         => extracted = Undef

\* C10 witness: a number at every configured query, body and params field,
\* no header match, and the result is none.
C10_Witness ==
  /\ Extracted /\ extracted = Undef
  /\ Len(LowerProbes) = 3
  /\ \A i \in 1..Len(LowerProbes) : ValueAt(LowerProbes[i]) = Num(7)
  /\ \A i \in 1..Len(Tagged("header")) : ~Hit(Tagged("header")[i])

\* C11 as stated: the result of extractFromRequest is none or a non-empty
\* string, whatever the request holds; only a non-empty string found at a
\* header is returned by the header phase.
C11_ResultIsNoneOrNonEmptyString ==
  Extracted => (extracted = Undef \/ NonEmptyString(extracted))

(***************************************************************************)
(* Properties of the extractor on requests of unexpected shape             *)
(***************************************************************************)
\* a location that is not a mapping, read as a mapping without fields
Readable(o) == IF o.t \in {"object", "array"} THEN o ELSE Obj(<<>>)

\* the field of a mapping, none when there is no such field or no mapping
Lookup(o, key) ==
  IF \E i \in 1..Len(Entries(Readable(o))) : Entries(Readable(o))[i].k = key
    THEN Entries(Readable(o))[CHOOSE i \in 1..Len(Entries(Readable(o))) :
                                Entries(Readable(o))[i].k = key].v
    ELSE Undef

\* the value a request of any shape holds for a probe, none when the
\* location or a step of the path cannot be read
ShapeValueAt(probe) ==
  CASE probe.loc = "header" ->
         LET es == Entries(Readable(request.headers))
             m == {i \in 1..Len(es) :
                     toLowerCase(es[i].k) = toLowerCase(probe.name)}
         IN IF m = {} THEN Undef
            ELSE FirstElement(es[CHOOSE i \in m : \A j \in m : i <= j].v)
    [] probe.loc = "body" ->
         IF probe.name = "user.traceId"
           THEN Lookup(Lookup(request.body, "user"), "traceId")
           ELSE Lookup(request.body, probe.name)
    [] OTHER -> Lookup(request[probe.loc], probe.name)

\* C12 as stated: extractFromRequest never raises, whatever the shape of
\* the request; a location that is missing, null or not a mapping, a value
\* of unexpected type and a broken step of a dotted body path count as not
\* found and the search goes on: the result is the first non-empty string
\* among the probes, none when there is none.
C12_NeverRaisesAndGoesOn ==
  Extracted =>
    /\ ~IsRaised(extracted)
    /\ extracted =
         IF \E i \in 1..Len(Probes) : NonEmptyString(ShapeValueAt(Probes[i]))
           THEN ShapeValueAt(Probes[
                  CHOOSE i \in 1..Len(Probes) :
                    /\ NonEmptyString(ShapeValueAt(Probes[i]))
                    /\ \A j \in 1..(i - 1) :
                         ~NonEmptyString(ShapeValueAt(Probes[j]))])
           ELSE Undef

(***************************************************************************)
(* Properties of the extractor's configuration                             *)
(***************************************************************************)
\* the locations an extractor can be configured to probe
Locations == {"header", "query", "body", "params"}

\* C27 as stated: extractFromRequest and getConfig leave the configuration
\* alone, and after updateConfig(c) the configuration is c: what c names,
\* and nothing for a location c does not name.
C27_UpdateReplacesWholesale ==
  /\ obs.op \in {"extractFromRequest", "extractor.getConfig"} =>
       exConfig = obs.before
  /\ obs.op = "extractor.updateConfig" =>
       \A loc \in Locations :
         exConfig[loc] = (IF loc \in DOMAIN obs.given THEN obs.given[loc]
                          ELSE Undef)

\* C27 amended: extractFromRequest and getConfig leave the configuration
\* alone, getConfig returns it, and updateConfig(c) merges c over it: what
\* c names is replaced, every other location is kept and still probed.
C27_UpdateMerges ==
  /\ obs.op \in {"extractFromRequest", "extractor.getConfig"} =>
       exConfig = obs.before
  /\ obs.op = "extractor.getConfig" => obs.got = exConfig
  /\ obs.op = "extractor.updateConfig" =>
       \A loc \in Locations :
         exConfig[loc] = (IF loc \in DOMAIN obs.given THEN obs.given[loc]
                          ELSE obs.before[loc])
  /\ (/\ obs.op = "extractFromRequest"
      /\ exConfig.query = Str("x-trace-id")
      /\ request.headers = Obj(<<>>)
      /\ NonEmptyString(Lookup(request.query, "x-trace-id"))) =>
       extracted = Lookup(request.query, "x-trace-id")

\* C27 witness: an update that names only the body has left the query
\* location, configured by an earlier update, in place.
C27_Witness ==
  /\ obs.op = "extractor.updateConfig"
  /\ DOMAIN obs.given = {"body"}
  /\ obs.before.query = Str("x-trace-id")
  /\ exConfig.query = Str("x-trace-id") /\ exConfig.body = Str("request-id")

(***************************************************************************)
(* Properties of the middleware                                            *)
(***************************************************************************)
\* the middleware was constructed without a configuration or with
\* enabled = false
MwOff == IF traceConfig = Undef THEN TRUE ELSE ~traceConfig.enabled

\* C13: with an absent or disabled configuration use() calls next once,
\* outside any scope of its own, without running the extractor, without
\* calling the generator and without writing the store's configuration.
C13_DisabledPassesThrough ==
  MwOff =>
    /\ obs.op = "use-enter" =>
         /\ mw.extractorRuns = 0 /\ mw.generatorCalls = 0
         /\ mw.nextCalls = 1 /\ mw.consoleErrors = 0
         /\ config = mw.configBefore
         /\ ~Top(stack[mw.flow]).bound
         /\ Top(stack[mw.flow]).store = Top(stack[mw.flow]).saved
         /\ cur = Top(stack[mw.flow]).saved
    /\ obs.op = "use" =>
         /\ obs.call.extractorRuns = 0 /\ obs.call.generatorCalls = 0
         /\ obs.call.nextErrors = <<>> => obs.call.nextCalls = 1

\* C13 witness: a middleware whose configuration is disabled but names a
\* generator has called next, and the store itself is tracing.
C13_Witness ==
  /\ obs.op = "use-enter" /\ traceConfig # Undef /\ MwOff
  /\ traceConfig.generator # Undef /\ config.enabled

\* C14: with an enabled configuration and a setup that does not fail, next
\* runs in a scope bound to the extracted id, the generator not being
\* called, or else to the value the configured generator returns; with
\* neither, next runs unbound. A downstream handler reads the bound id from
\* getCurrentTraceId(), before and after suspensions, while tracing is on.
C14_BoundToExtractedOrGenerated ==
  /\ (obs.op = "use-enter" /\ ~MwOff /\ mw.branch # "failed") =>
       LET fr == Top(stack[mw.flow]) IN
         /\ mw.extractorRuns = 1 /\ mw.nextCalls = 1
         /\ IF Truthy(mw.found)
              THEN /\ mw.generatorCalls = 0
                   /\ fr.bound /\ Str(fr.traceId) = mw.found
                   /\ cur = NewContext(mw.found.v)
            ELSE IF traceConfig.generator # Undef
              THEN /\ mw.generatorCalls = 1
                   /\ fr.bound /\ Str(fr.traceId) = traceConfig.generator.result
                   /\ cur = NewContext(traceConfig.generator.result.v)
            ELSE /\ mw.generatorCalls = 0
                 /\ ~fr.bound /\ fr.store = fr.saved /\ cur = fr.saved
  /\ (/\ obs.op = "getCurrentTraceId" /\ obs.caller \in Flows
      /\ Top(stack[obs.caller]).kind = "next"
      /\ Top(stack[obs.caller]).bound /\ config.enabled) =>
       obs.got = Str(Top(stack[obs.caller]).traceId)

\* C14 witness: a downstream handler that went on after a suspension reads
\* the id the generator returned for its request.
C14_Witness ==
  /\ obs.op = "getCurrentTraceId" /\ obs.caller \in Flows
  /\ Top(stack[obs.caller]).kind = "next" /\ Top(stack[obs.caller]).awaited
  /\ mw = MwIdle /\ obs.got = Str("G1")

\* C15: when the setup raises (the request view, the extractor or the
\* generator) the catch block reports one error to the console and calls
\* next, outside any scope of the middleware; the setup error is not what
\* the caller of use() gets.
C15_SetupFailureIsNotFatal ==
  /\ (obs.op = "use-enter" /\ mw.branch = "failed") =>
       /\ mw.phase = "catch" /\ mw.consoleErrors = 1 /\ mw.nextCalls = 1
       /\ mw.surfaced = Undef
       /\ ~Top(stack[mw.flow]).bound
       /\ Top(stack[mw.flow]).store = Top(stack[mw.flow]).saved
       /\ cur = Top(stack[mw.flow]).saved
  /\ (obs.op = "use" /\ obs.call.branch = "failed") =>
       /\ obs.call.consoleErrors = 1 /\ obs.call.nextCalls = 1
       /\ obs.call.surfaced # obs.call.setupError
       /\ obs.call.nextErrors = <<>> =>
            (obs.outcome = "returned" /\ obs.call.surfaced = Undef)

\* C15 witness: use() has returned normally from a call whose generator
\* raised.
C15_Witness ==
  /\ obs.op = "use" /\ obs.outcome = "returned"
  /\ obs.call.branch = "failed" /\ obs.call.setupError = Str("GenError")
  /\ obs.call.generatorCalls = 1

\* C16: an error the next callback raises while use() is running ends
\* use() with that error: there is no further console report, no further
\* call of next, and the caller of use() gets the error unchanged.
C16_DownstreamErrorSurfaces ==
  /\ (mw.phase \in {"try", "catch"}) => mw.nextErrors = <<>>
  /\ (obs.op = "use" /\ obs.call.nextErrors # <<>>) =>
       /\ obs.outcome = "raised"
       /\ obs.call.surfaced = Str(obs.call.nextErrors[1])
       /\ obs.call.nextCalls = 1
       /\ obs.call.consoleErrors =
            (IF obs.call.branch = "failed" THEN 1 ELSE 0)

\* C17: a call of use() leaves the store's configuration and the
\* middleware's own configuration as they were before the call, when next
\* is entered and when use() returns without the downstream handler having
\* written the store's configuration itself.
C17_StatelessBetweenInvocations ==
  /\ obs.op = "use-enter" =>
       (config = mw.configBefore /\ traceConfig = mw.traceConfigBefore)
  /\ (obs.op = "use" /\ lastWriter # obs.call.flow) =>
       (config = obs.call.configBefore
          /\ traceConfig = obs.call.traceConfigBefore)

\* C23: a middleware configured with header = H, H not a default name,
\* binds the downstream handler to the value a request carries in header H.
C23_ConfiguredHeaderIsScanned ==
  (/\ obs.op = "use-enter"
   /\ ~MwOff
   /\ traceConfig.header = Str(CustomHeader)
   /\ NonEmptyString(Lookup(mw.req.headers, CustomHeader))) =>
    /\ Top(stack[mw.flow]).bound
    /\ Str(Top(stack[mw.flow]).traceId) = Lookup(mw.req.headers, CustomHeader)

\* C25: the route parameters handed to the extractor are the flat mapping
\* of the request: a flat mapping with all its keys, and { id: v } for the
\* path list [seg, v] of a route with one parameter, whatever seg is.
C25_RouteParamsAreNormalized ==
  (obs.op = "use-enter" /\ ~MwOff) =>
    IF Lookup(mw.req.params, "path").t = "array"
      THEN Len(Lookup(mw.req.params, "path").v) = 2 =>
             mw.params =
               Obj(<<Entry("id", Lookup(mw.req.params, "path").v[2])>>)
      ELSE mw.params = Obj(Entries(mw.req.params))

\* C28: every call of use() invokes next exactly once, on every path,
\* the one where next raises included.
C28_NextCalledExactlyOnce ==
  /\ mw.phase # "idle" => mw.nextCalls = 1
  /\ obs.op = "use" => obs.call.nextCalls = 1

(***************************************************************************)
(* Properties of the logger                                                *)
(***************************************************************************)
\* C18: an entry the Logger hands to its adapter carries the trace id of the
\* flow that made the log call: the id of the innermost scope the call is
\* made in while tracing is on, before and after suspensions; no traceId at
\* top level, outside a bound scope or while tracing is off; never an id
\* that only another flow has bound.
C18_EntriesCarryOwnTraceId ==
  (obs.op = "log" /\ obs.entry # NoEntry) =>
    /\ obs.entry.traceId =
         IF config.enabled THEN InnermostId(obs.caller) ELSE Undef
    /\ obs.caller = Main => obs.entry.traceId = Undef
    /\ obs.caller \in Flows =>
         obs.entry.traceId \in
           {Str(stack[obs.caller][i].traceId) : i \in BoundAt(stack[obs.caller])}
             \cup {Undef}

\* C18 witness: A, bound with T1 and resumed after a suspension, logs an
\* entry with traceId T1 while B, bound with T2, is suspended.
C18_Witness ==
  /\ obs.op = "log" /\ obs.caller = "A" /\ obs.entry # NoEntry
  /\ obs.entry.traceId = Str("T1")
  /\ Len(stack["A"]) = 1 /\ stack["A"][1].awaited
  /\ Len(stack["B"]) = 1 /\ stack["B"][1].bound
  /\ stack["B"][1].traceId = "T2" /\ stack["B"][1].awaited

\* the position of a level in the order trace < debug < info < warn < error
\* < fatal
Rank(level) ==
  CASE level = "trace" -> 0 [] level = "debug" -> 1 [] level = "info" -> 2
    [] level = "warn" -> 3 [] level = "error" -> 4 [] level = "fatal" -> 5

\* C19: isLevelEnabled(l) is true exactly when l is at or above the level
\* getLevel() returns, a log call at level l hands an entry (of level l) to
\* the adapter exactly then, and right after setLevel(L) getLevel() is L.
C19_LevelsFilter ==
  /\ obs.op = "isLevelEnabled" =>
       (obs.got <=> Rank(obs.level) >= Rank(getLevel(logger)))
  /\ obs.op = "log" =>
       /\ (obs.entry # NoEntry) <=> Rank(obs.level) >= Rank(getLevel(logger))
       /\ obs.entry # NoEntry => obs.entry.level = obs.level
  /\ obs.op = "setLevel" => getLevel(logger) = obs.level

\* C19 witness: with the level raised to error, a warn call emits nothing.
C19_Witness ==
  /\ obs.op = "log" /\ obs.level = "warn" /\ obs.entry = NoEntry
  /\ getLevel(logger) = "error"

\* C20 as stated: a Logger created with config.level = L reports
\* getLevel() = L, as it does after updateConfig({level: L}).
C20_CreatedAtConfigLevel ==
  /\ (obs.op = "createLogger" /\ obs.given.level # Undef)
       => getLevel(logger) = obs.given.level.v
  /\ (obs.op = "updateConfig" /\ obs.given.level # Undef)
       => getLevel(logger) = obs.given.level.v

\* C22: a log call whose adapter.log fails resolves all the same, after
\* one report on the console; no log call raises or rejects.
C22_LogCallsNeverFail ==
  obs.op = "logged" =>
    /\ obs.result.settled.kind = "return"
    /\ (obs.entry # NoEntry /\ obs.adapter.kind = "throw") =>
         obs.result.consoleErrors = 1

\* C22 witness: an error entry went to an adapter whose log() failed.
C22_Witness ==
  /\ obs.op = "logged" /\ obs.level = "error" /\ obs.entry # NoEntry
  /\ obs.adapter.kind = "throw" /\ obs.result.consoleErrors = 1

(***************************************************************************)
(* Properties of the timers                                                *)
(***************************************************************************)
\* C21: a timeEnd(label) that finds a timer returns the time elapsed since
\* its start, a number >= 0, and the timer is gone when it returns; one
\* that finds none returns undefined, as a second timeEnd after the first
\* does. timeAsync settles as fn settled, and no timer it started remains.
C21_TimerEndsOnce ==
  /\ obs.op = "timeEnd" =>
       IF obs.before # NoTimer
         THEN /\ obs.returned.t = "number" /\ obs.returned.v >= 0
              /\ obs.returned.v <= now - obs.before.startTime
              /\ timings[obs.label] = NoTimer
         ELSE obs.returned = Undef
  /\ obs.op = "timeAsync" =>
       /\ obs.settled = obs.fn
       /\ obs.before # NoTimer => timings[obs.label] = NoTimer
       /\ \/ timings[obs.label] = NoTimer
          \/ timings[obs.label].by # [logger |-> obs.logger, async |-> TRUE]

\* C21 witness: a timeAsync whose fn raised has rejected with that error
\* after its timer, started two clock readings before, was ended.
C21_Witness ==
  /\ obs.op = "timeAsync" /\ obs.settled = [kind |-> "throw", v |-> "E1"]
  /\ obs.before # NoTimer
  /\ obs.before.by = [logger |-> obs.logger, async |-> TRUE]
  /\ obs.before.startTime = 0 /\ now = 2

\* C29: a running timer belongs to the Logger it was started on: a time, a
\* timeEnd, a timeAsync or a close on another instance neither replaces,
\* ends, measures nor clears it.
C29_TimersBelongToTheirLogger ==
  /\ obs.op = "time" =>
       (obs.before = NoTimer \/ obs.before.by.logger = obs.logger)
  /\ obs.op \in {"timeEnd", "timeAsync"} =>
       (obs.before = NoTimer \/ obs.before.by.logger = obs.logger)
  /\ obs.op = "close" =>
       \A l \in Labels :
         obs.before[l] = NoTimer \/ obs.before[l].by.logger = obs.logger

(***************************************************************************)
(* Properties of the loggers made by the constructor and by child()        *)
(***************************************************************************)
\* C26: logger.child(context, data?) returns a logger whose context data is
\* the parent's merged with data, data winning on a clash, and whose
\* context is the parent's followed by context; an entry of the child then
\* carries every key its ancestors contributed
C26_ChildInheritsContextData ==
  obs.op = "child" =>
    /\ obs.made.contextData =
         Merge(obs.parent.contextData,
               IF obs.data = Undef THEN NoData ELSE obs.data)
    /\ obs.made.context = obs.parent.context \o <<obs.context>>
    /\ \A k \in DataKeys :
         obs.parent.contextData[k] # Undef => obs.entry[k] # Undef

\* the operations of a Logger that run configureTraceId
FlagWriters == {"new Logger", "child", "logger.updateConfig"}

\* C30: the constructor, child() and updateConfig() leave the store's
\* enabled flag false when the logger's config has traceId false and true
\* otherwise; apart from them only enable() and disable() change it; and
\* while it is false no flow reads a trace id and no entry of any logger
\* carries one
C30_LoggersWriteTheEnabledFlag ==
  [][/\ obs'.op \in FlagWriters =>
          config'.enabled = (obs'.setting # [t |-> "boolean", v |-> FALSE])
     /\ config'.enabled # config.enabled =>
          obs'.op \in FlagWriters \cup {"none"}
     /\ (obs'.op = "getCurrentTraceId" /\ ~config.enabled) =>
          obs'.got = Undef
     /\ (obs'.op = "log" /\ ~config.enabled) =>
          (obs'.entry # NoEntry /\ obs'.entry.traceId = Undef)]_vars

\* C30 witness: a logger whose config has traceId false was made or
\* updated inside a bound flow after another logger existed, and tracing
\* is off
C30_Witness ==
  /\ obs.op \in FlagWriters
  /\ obs.setting = [t |-> "boolean", v |-> FALSE]
  /\ obs.caller \in Flows
  /\ cur # Undef
  /\ Cardinality(family) >= 2
  /\ ~config.enabled

(***************************************************************************)
(* Properties of the metadata of the trace contexts                        *)
(***************************************************************************)
\* C24: setMetadata(k, v) changes only the metadata of the context bound to
\* the running flow: what getMetadata yields under any other bound
\* context, of another flow or of an enclosing scope, is as before; without
\* a bound context setMetadata changes nothing and getMetadata yields
\* undefined
C24_MetadataIsPerContext ==
  /\ obs.op = "setMetadata" =>
       /\ \A s \in ActiveSlots \ {obs.slot} : \A k \in MetaKeys :
            getMetadata(metadata, s, k) = getMetadata(obs.before, s, k)
       /\ obs.slot = Unbound => metadata = obs.before
  /\ (obs.op = "getMetadata" /\ obs.slot = Unbound) => obs.got = Undef

\* getStore() yields a context exactly when the running caller has a slot
MetaSlotMatchesStore == (cur = Undef) <=> (currentSlot(running) = Unbound)

====
